---------------------------- MODULE Spec2Model ----------------------------
(***************************************************************************)
(* JsonX: the declarative JX_ELEMENT[] layer over cJSON.                   *)
(*                                                                         *)
(* The model covers the parser session (jx_init / jx_parser_deinit for the *)
(* four backends), the static bump allocator, and the two recursive walks  *)
(* _jx_struct_to_object (encode) and _jx_object_to_struct (decode) over an *)
(* element store and a byte-addressed caller memory.                       *)
(***************************************************************************)
EXTENDS Integers, Sequences, FiniteSets, TLC

VARIABLES
    backend,      \* build configuration: which jx_init overload is compiled
    JSON_Parser,  \* static JX_PARSER *JSON_Parser and the block it points to
    cjson_hooks,  \* cJSON's global allocation hooks (cJSON_InitHooks)
    allocator,    \* static jx_static_allocator_t *allocator and its fields
    host,         \* session blocks outstanding in the host allocator, and the
                  \* blocks the caller holds from the arena (user)
    tree,         \* which caller element tree / struct layout is declared
    elems,        \* the caller's JX_ELEMENT storage
    mem,          \* the caller's struct memory, byte addressed
    buffer,       \* the caller's text buffer as jx_struct_to_json left it
    last,         \* the last API call: its inputs, its result, what it touched
    calls         \* how many encode / decode calls the caller has made

vars == <<backend, JSON_Parser, cjson_hooks, allocator, host, tree, elems, mem, buffer, last,
          calls>>

-----------------------------------------------------------------------------
(* Enumerations of jx_types.h *)

JX_RESET == "JX_RESET"
JX_INITIALIZED == "JX_INITIALIZED"

JX_SUCCESS == "JX_SUCCESS"
JX_ERROR == "JX_ERROR"

JX_MODE_RELAXED == "JX_MODE_RELAXED"
JX_MODE_STRICT == "JX_MODE_STRICT"

JX_INVALID == "JX_INVALID"
JX_NULL == "JX_NULL"
JX_BOOLEAN == "JX_BOOLEAN"
JX_NUMBER == "JX_NUMBER"
JX_STRING == "JX_STRING"
JX_ARRAY == "JX_ARRAY"
JX_OBJECT == "JX_OBJECT"

JX_ELEMENT_NOT_UPDATED == "JX_ELEMENT_NOT_UPDATED"
JX_ELEMENT_UPDATED == "JX_ELEMENT_UPDATED"

JX_MINIFIED == "JX_MINIFIED"
JX_FORMATTED == "JX_FORMATTED"

JX_PROPERTY_MAX_SIZE == 50

\* The null pointer: addresses and element indices start at 1.
NULL == 0

\* uint8_t value_len
Uint8 == 256

ALIGN_4(x) == ((x + 3) \div 4) * 4

Min(a, b) == IF a < b THEN a ELSE b

-----------------------------------------------------------------------------
(* Caller memory: bytes.  A double is 8 bytes, little endian IEEE 754; the  *)
(* values the model stores are small non-negative integers, whose low four  *)
(* bytes are zero.                                                          *)

\* Size of the modelled address space: the largest struct plus the bytes
\* that follow it.
MemSize == 100

Addr == 1..MemSize

\* The doubles a caller or a document may hold.
Nums == {0, 12, 34, 56, 78}

\* Any double that is none of Nums (a partly overwritten value).
OtherDouble == -1

Log2[n \in 1..127] == IF n = 1 THEN 0 ELSE 1 + Log2[n \div 2]

Pow2[e \in 0..30] == IF e = 0 THEN 1 ELSE 2 * Pow2[e - 1]

\* The high 32 bits of the IEEE 754 double n, for an integer 0 <= n < 128.
Hi32(n) ==
    IF n = 0 THEN 0
    ELSE LET e == Log2[n]
         IN (1023 + e) * Pow2[20] + (n - Pow2[e]) * Pow2[20 - e]

DoubleBytes(n) ==
    IF n = OtherDouble THEN [i \in 1..8 |-> 255]
    ELSE LET h == Hi32(n)
         IN <<0, 0, 0, 0, h % 256, (h \div 256) % 256,
              (h \div 65536) % 256, (h \div 16777216) % 256>>

DoubleOf(bytes) ==
    IF \E n \in Nums : DoubleBytes(n) = bytes
    THEN CHOOSE n \in Nums : DoubleBytes(n) = bytes
    ELSE OtherDouble

\* The bytes at a .. a+n-1; a byte outside the modelled space reads as 0.
ReadBytes(m, a, n) == [i \in 1..n |-> IF a + i - 1 \in Addr THEN m[a + i - 1] ELSE 0]

\* Store the byte sequence bs at address a.
WriteBytes(m, a, bs) ==
    [x \in Addr |-> IF x >= a /\ x < a + Len(bs) THEN bs[x - a + 1] ELSE m[x]]

\* The C string at address a: the bytes up to the first NUL.
RECURSIVE CString(_, _)
CString(m, a) ==
    IF a \notin Addr \/ m[a] = 0 THEN <<>>
    ELSE <<m[a]>> \o CString(m, a + 1)

-----------------------------------------------------------------------------
(* Allocation.  A walk threads an allocation context h through every cJSON  *)
(* call: the hooks cJSON was given, the arena's fields, and, for the host   *)
(* allocators (ThreadX pool, pvPortMalloc, malloc, user hooks), how many    *)
(* more requests the host will satisfy during this call.                   *)

\* sizeof(cJSON) on the 32-bit targets the library is written for.
SizeofCJSON == 40

\* A host allocator that does not run out during one call.
Plenty == 64

\* How many requests the host allocator satisfies during one API call:
\* none, enough for a container and half a string, enough up to the first
\* array child of example.c's tree, and all of them.
Quotas == {0, 2, 5, Plenty}

\* A size_t is a 32-bit word.  The words from 2^31 up are written as the
\* negative integers congruent to them modulo 2^32, so that + and ALIGN_4
\* wrap around where the words do: SIZE_MAX is -1 and SIZE_MAX + 3 is 2.
SIZE_MAX == -1

\* x > y as C compares two size_t words, for a y below 2^31.
UGreater(x, y) == x < 0 \/ x > y

\* jx_static_malloc(size): the arena's allocate.  A block is recorded as
\* <<offset in the pool, rounded size>>.
\* if (allocator->pool_offset + size > allocator->pool_size) return NULL;
\* else the block at pool_offset is handed out and pool_offset advances.
Carve(h, sz) ==
    IF UGreater(h.pool_offset + sz, h.pool_size)
    THEN [h EXCEPT !.ok = FALSE, !.failed = TRUE]
    ELSE [h EXCEPT !.ok = TRUE, !.pool_offset = @ + sz,
                   !.blocks = Append(@, <<h.pool_offset, sz>>)]

jx_static_malloc(h, size) ==
    IF h.alloc_ptr = NULL \/ size = 0 THEN [h EXCEPT !.ok = FALSE, !.failed = TRUE]
    ELSE Carve(h, ALIGN_4(size))

\* A request to a host allocator: tx_byte_allocate, pvPortMalloc, malloc
\* or the user's malloc_fn.
HostMalloc(h) ==
    IF h.quota > 0
    THEN [h EXCEPT !.ok = TRUE, !.quota = @ - 1, !.live = @ + 1]
    ELSE [h EXCEPT !.ok = FALSE, !.failed = TRUE]

\* The malloc hook cJSON calls: global_hooks.allocate.
HookMalloc(h, size) ==
    IF h.malloc_fn = "jx_static_malloc" THEN jx_static_malloc(h, size)
    ELSE HostMalloc(h)

\* The free hook cJSON calls on n blocks: jx_static_free is a no-op.
HookFree(h, n) ==
    IF h.free_fn = "jx_static_free" THEN h
    ELSE [h EXCEPT !.live = @ - n, !.freed = @ + n]

-----------------------------------------------------------------------------
(* The value tree: cJSON items.  An item is a record; child is the list of  *)
(* its children in next-pointer order, and loop says that the last child's  *)
(* next pointer points back at that child itself.                           *)

cJSON_NULL == "cJSON_NULL"
cJSON_False == "cJSON_False"
cJSON_True == "cJSON_True"
cJSON_Number == "cJSON_Number"
cJSON_String == "cJSON_String"
cJSON_Array == "cJSON_Array"
cJSON_Object == "cJSON_Object"

\* item->string of an item that has no key (a null char *): no C string.
NoKey == <<-1>>

Item(t, d, s, c) ==
    [type |-> t, valuedouble |-> d, valuestring |-> s, child |-> c,
     string |-> NoKey, loop |-> FALSE]

\* A null cJSON pointer.
NullItem == Item("NULL", 0, <<>>, <<>>)

\* Document constructors.
JNull == Item(cJSON_NULL, 0, <<>>, <<>>)
JBool(b) == Item(IF b THEN cJSON_True ELSE cJSON_False, 0, <<>>, <<>>)
JNum(n) == Item(cJSON_Number, n, <<>>, <<>>)
JStr(s) == Item(cJSON_String, 0, s, <<>>)
JArr(items) == Item(cJSON_Array, 0, <<>>, items)
JObj(items) == Item(cJSON_Object, 0, <<>>, items)
Key(k, item) == [item EXCEPT !.string = k]

cJSON_IsNull(o) == o.type = cJSON_NULL
cJSON_IsBool(o) == o.type \in {cJSON_True, cJSON_False}
cJSON_IsTrue(o) == o.type = cJSON_True
cJSON_IsNumber(o) == o.type = cJSON_Number
cJSON_IsString(o) == o.type = cJSON_String
cJSON_IsObject(o) == o.type = cJSON_Object
cJSON_IsArray(o) == o.type = cJSON_Array

\* cJSON_GetArraySize: the number of children, whatever the item's type.
cJSON_GetArraySize(o) == Len(o.child)

\* cJSON_GetArrayItem: the index-th child (from 0) or a null pointer.
cJSON_GetArrayItem(o, index) ==
    IF index + 1 \in 1..Len(o.child) THEN o.child[index + 1] ELSE NullItem

\* cJSON_GetObjectItemCaseSensitive: walks the children while they have a
\* key that differs from name; null when the walk ends or meets a child
\* without a key.
RECURSIVE GetFrom(_, _, _)
GetFrom(c, k, name) ==
    IF k > Len(c) THEN NullItem
    ELSE IF c[k].string = NoKey THEN NullItem
    ELSE IF c[k].string = name THEN c[k]
    ELSE GetFrom(c, k + 1, name)

cJSON_GetObjectItemCaseSensitive(o, name) == GetFrom(o.child, 1, name)

\* cJSON_New_Item through the hooks; h.ok tells whether it was allocated.
cJSON_CreateObject(h) == HookMalloc(h, SizeofCJSON)
cJSON_CreateArray(h) == HookMalloc(h, SizeofCJSON)
cJSON_CreateBool(h) == HookMalloc(h, SizeofCJSON)
cJSON_CreateNumber(h) == HookMalloc(h, SizeofCJSON)

\* cJSON_CreateString: the item, then a copy of the string; the item is
\* deleted again when the copy cannot be allocated.
cJSON_CreateString(h, s) ==
    LET h1 == HookMalloc(h, SizeofCJSON)
    IN IF ~h1.ok THEN h1
       ELSE LET h2 == HookMalloc(h1, Len(s) + 1)
            IN IF h2.ok THEN h2 ELSE [HookFree(h2, 1) EXCEPT !.ok = FALSE]

-----------------------------------------------------------------------------
(* The caller's declarations: JX_ELEMENT storage and the struct it binds.   *)
(* elems is the caller's element storage; element is the index of the first *)
(* child (NULL for none); the arrays the caller declared are the ranges of  *)
(* Arrays(tree).                                                            *)

\* Property names, as the bytes of their C strings.
P ==
    [ name |-> <<110, 97, 109, 101>>,
      position |-> <<112, 111, 115, 105, 116, 105, 111, 110>>,
      person |-> <<112, 101, 114, 115, 111, 110>>,
      Skills |-> <<83, 107, 105, 108, 108, 115>>,
      Addresses |-> <<65, 100, 100, 114, 101, 115, 115, 101, 115>>,
      zip |-> <<122, 105, 112>>,
      ok |-> <<111, 107>>,
      flag |-> <<102, 108, 97, 103>>,
      nothing |-> <<110, 111, 116, 104, 105, 110, 103>>,
      num |-> <<110, 117, 109>>,
      text |-> <<116, 101, 120, 116>>,
      inner |-> <<105, 110, 110, 101, 114>>,
      k |-> <<107>>,
      FirstName |-> <<70, 105, 114, 115, 116, 78, 97, 109, 101>>,
      a |-> <<97>> ]

Element(p, t, len, vp, el) ==
    [property |-> p, type |-> t, value_len |-> len, value_p |-> vp,
     status |-> JX_ELEMENT_NOT_UPDATED, element |-> el, element_size |-> 0]

JX_STRING_PTR(vp) == Element(<<>>, JX_STRING, 0, vp, NULL)
JX_NUMBER_VAL(vp) == Element(<<>>, JX_NUMBER, 0, vp, NULL)
JX_OBJECT_VAL(el, n) == Element(<<>>, JX_OBJECT, n, NULL, el)
JX_PROPERTY_STRING(p, vp) == Element(p, JX_STRING, 0, vp, NULL)
JX_PROPERTY_BOOLEAN(p, vp) == Element(p, JX_BOOLEAN, 0, vp, NULL)
JX_PROPERTY_NUMBER(p, vp) == Element(p, JX_NUMBER, 0, vp, NULL)
JX_PROPERTY_ARRAY(p, el, n) == Element(p, JX_ARRAY, n, NULL, el)
JX_PROPERTY_OBJECT(p, el, n) == Element(p, JX_OBJECT, n, NULL, el)
JX_PROPERTY_OBJECT_EMPTY(p) == Element(p, JX_OBJECT, 1, NULL, NULL)

Trees == {"example", "reordered", "person", "record", "empty", "unbound"}

\* example.c: struct { char name[32]; double coords[2]; } and user_object[].
ExampleElems ==
    << JX_PROPERTY_STRING(P.name, 1),
       JX_PROPERTY_ARRAY(P.position, 3, 2),
       JX_NUMBER_VAL(33),
       JX_NUMBER_VAL(41) >>

\* The struct of example.c with its two elements declared in the other order.
ReorderedElems ==
    << JX_PROPERTY_ARRAY(P.position, 3, 2),
       JX_PROPERTY_STRING(P.name, 1),
       JX_NUMBER_VAL(33),
       JX_NUMBER_VAL(41) >>

\* The layout of jx_user.h's Person_t example, with two skills and two
\* addresses: struct { char Skills[2][32];
\*                     struct { double Zip; bool Ok; } Addresses[2]; }.
PersonElems ==
    << JX_PROPERTY_OBJECT(P.person, 2, 2),
       JX_PROPERTY_ARRAY(P.Skills, 4, 2),
       JX_PROPERTY_ARRAY(P.Addresses, 6, 2),
       JX_STRING_PTR(1),
       JX_STRING_PTR(33),
       JX_OBJECT_VAL(8, 2),
       JX_OBJECT_VAL(10, 2),
       JX_PROPERTY_NUMBER(P.zip, 65),
       JX_PROPERTY_BOOLEAN(P.ok, 73),
       JX_PROPERTY_NUMBER(P.zip, 81),
       JX_PROPERTY_BOOLEAN(P.ok, 89) >>

\* A flat record with one element of every type:
\* struct { bool flag; uint32_t nothing; double num; char text[56]; double k; }.
RecordElems ==
    << JX_PROPERTY_BOOLEAN(P.flag, 1),
       Element(P.nothing, JX_NULL, 0, 5, NULL),
       JX_PROPERTY_NUMBER(P.num, 9),
       JX_PROPERTY_STRING(P.text, 17),
       JX_PROPERTY_OBJECT(P.inner, 6, 1),
       JX_PROPERTY_NUMBER(P.k, 73) >>

\* struct { double num; } and an object declared with no members.
EmptyElems ==
    << JX_PROPERTY_NUMBER(P.num, 1),
       JX_PROPERTY_OBJECT_EMPTY(P.inner) >>

\* struct { double num; } and two leaves whose value_p the caller left null.
UnboundElems ==
    << JX_PROPERTY_NUMBER(P.num, 1),
       Element(P.flag, JX_BOOLEAN, 0, NULL, NULL),
       JX_PROPERTY_STRING(P.text, NULL) >>

TreeElems(t) ==
    CASE t = "example" -> ExampleElems
      [] t = "reordered" -> ReorderedElems
      [] t = "person" -> PersonElems
      [] t = "record" -> RecordElems
      [] t = "empty" -> EmptyElems
      [] t = "unbound" -> UnboundElems

\* The top-level array handed to the API: its first index and its length.
TopBase(t) == 1

TopSize(t) ==
    CASE t \in {"example", "reordered"} -> 2
      [] t = "person" -> 1
      [] t = "record" -> 5
      [] t = "empty" -> 2
      [] t = "unbound" -> 3

\* The element arrays the caller declared, as <<first, last>> index ranges.
Arrays(t) ==
    CASE t \in {"example", "reordered"} -> {<<1, 2>>, <<3, 4>>}
      [] t = "person" -> {<<1, 1>>, <<2, 3>>, <<4, 5>>, <<6, 7>>, <<8, 9>>, <<10, 11>>}
      [] t = "record" -> {<<1, 5>>, <<6, 6>>}
      [] t = "empty" -> {<<1, 2>>}
      [] t = "unbound" -> {<<1, 3>>}

\* sizeof the caller's struct: the bytes after it are not the caller's.
StructSize(t) ==
    CASE t \in {"example", "reordered"} -> 48
      [] t = "person" -> 96
      [] t = "record" -> 80
      [] t \in {"empty", "unbound"} -> 8

\* The bytes bound to an element's value_p: what the caller declared.
\* A string buffer's size is the caller's array size.
FieldSize(t, idx) ==
    LET e == TreeElems(t)[idx]
    IN IF e.value_p = NULL THEN 0
       ELSE CASE e.type = JX_NUMBER -> 8
              [] e.type = JX_BOOLEAN -> 1
              [] e.type = JX_NULL -> 4
              [] e.type = JX_STRING -> IF t = "record" THEN 56 ELSE 32
              [] OTHER -> 0

Field(t, idx) ==
    LET e == TreeElems(t)[idx]
    IN IF FieldSize(t, idx) = 0 THEN {}
       ELSE e.value_p .. (e.value_p + FieldSize(t, idx) - 1)

\* What lies in memory after a declared array is not known: an access
\* beyond the array reads one of these.
GarbageElems ==
    { Element(<<>>, JX_INVALID, 0, NULL, NULL),
      Element(P.FirstName, JX_STRING, 0, NULL, NULL) }

\* Strings as bytes.
S_Adam == <<65, 100, 97, 109>>
S_Eve == <<69, 118, 101>>
S_Long == [i \in 1..52 |-> 88]

\* Bytes that are not the caller's struct hold this value at the start.
GuardByte == 170

\* The struct with the given field values written into zeroed storage.
RECURSIVE Fill(_, _)
Fill(m, writes) ==
    IF writes = <<>> THEN m
    ELSE Fill(WriteBytes(m, writes[1][1], writes[1][2]), Tail(writes))

Blank(t) == [x \in Addr |-> IF x <= StructSize(t) THEN 0 ELSE GuardByte]

BoolByte(b) == IF b THEN <<1>> ELSE <<0>>

\* The values the caller assigns before a call.
Assignments(t) ==
    CASE t = "example" ->
           { <<<<1, S_Adam>>, <<33, DoubleBytes(12)>>, <<41, DoubleBytes(34)>>>>,
             <<<<1, S_Eve>>, <<33, DoubleBytes(56)>>, <<41, DoubleBytes(78)>>>> }
      [] t = "reordered" ->
           { <<<<1, S_Adam>>, <<33, DoubleBytes(12)>>, <<41, DoubleBytes(34)>>>> }
      [] t = "person" ->
           { <<<<1, S_Adam>>, <<33, S_Eve>>, <<65, DoubleBytes(12)>>, <<73, BoolByte(TRUE)>>,
               <<81, DoubleBytes(34)>>, <<89, BoolByte(FALSE)>>>> }
      [] t = "record" ->
           { <<<<1, BoolByte(TRUE)>>, <<5, <<1, 0, 0, 0>>>>, <<9, DoubleBytes(12)>>,
               <<17, S_Adam>>, <<73, DoubleBytes(34)>>>>,
             <<<<1, BoolByte(FALSE)>>, <<5, <<1, 0, 0, 0>>>>, <<9, DoubleBytes(56)>>,
               <<17, S_Long>>, <<73, DoubleBytes(78)>>>> }
      [] t \in {"empty", "unbound"} -> { <<<<1, DoubleBytes(12)>>>> }

-----------------------------------------------------------------------------
(* The text codec: cJSON_PrintPreallocated and cJSON_Parse.  A text is the  *)
(* sequence of its bytes.  Strings in the modelled documents need no        *)
(* escapes and numbers are non-negative integers.                           *)

RECURSIVE Digits(_)
Digits(n) == IF n < 10 THEN <<48 + n>> ELSE Digits(n \div 10) \o <<48 + (n % 10)>>

T_null == <<110, 117, 108, 108>>
T_true == <<116, 114, 117, 101>>
T_false == <<102, 97, 108, 115, 101>>

Quoted(s) == <<34>> \o s \o <<34>>

Tabs(n) == [i \in 1..n |-> 9]

\* print_value: the text of an item; fmt is cJSON's format flag and depth
\* the nesting depth of the item's own children.
RECURSIVE print_value(_, _, _)
RECURSIVE print_members(_, _, _, _, _)
print_members(c, k, fmt, depth, isObject) ==
    IF k > Len(c) THEN <<>>
    ELSE LET more == k < Len(c)
             v == print_value(c[k], fmt, depth + 1)
         IN (IF isObject
             THEN (IF fmt THEN Tabs(depth) ELSE <<>>) \o Quoted(c[k].string) \o <<58>>
                  \o (IF fmt THEN <<9>> ELSE <<>>) \o v
                  \o (IF more THEN <<44>> ELSE <<>>) \o (IF fmt THEN <<10>> ELSE <<>>)
             ELSE v \o (IF more THEN (IF fmt THEN <<44, 32>> ELSE <<44>>) ELSE <<>>))
            \o print_members(c, k + 1, fmt, depth, isObject)

print_value(o, fmt, depth) ==
    CASE o.type = cJSON_NULL -> T_null
      [] o.type = cJSON_True -> T_true
      [] o.type = cJSON_False -> T_false
      [] o.type = cJSON_Number ->
           IF o.valuedouble = OtherDouble THEN T_null ELSE Digits(o.valuedouble)
      [] o.type = cJSON_String -> Quoted(o.valuestring)
      [] o.type = cJSON_Array -> <<91>> \o print_members(o.child, 1, fmt, depth, FALSE) \o <<93>>
      [] o.type = cJSON_Object ->
           <<123>> \o (IF fmt THEN <<10>> ELSE <<>>)
           \o print_members(o.child, 1, fmt, depth, TRUE)
           \o (IF fmt THEN Tabs(depth - 1) ELSE <<>>) \o <<125>>
      [] OTHER -> <<>>

\* Some child list below o is cyclic: printing it never reaches the end.
RECURSIVE HasLoop(_)
HasLoop(o) == o.loop \/ \E k \in 1..Len(o.child) : HasLoop(o.child[k])

\* cJSON_PrintPreallocated(object, buffer, buffer_size, fmt): the text and
\* its terminating NUL must fit; a cyclic child list fills any buffer.
\* The result is the text, or <<>> for failure (no text is empty).
cJSON_PrintPreallocated(o, buffer_size, fmt) ==
    IF HasLoop(o) THEN <<>>
    ELSE LET t == print_value(o, fmt, 1)
         IN IF Len(t) + 1 <= buffer_size THEN t ELSE <<>>

\* buffer_skip_whitespace: skips bytes <= 32.
RECURSIVE SkipWs(_, _)
SkipWs(t, p) == IF p <= Len(t) /\ t[p] <= 32 THEN SkipWs(t, p + 1) ELSE p

HasPrefix(t, p, w) == p + Len(w) - 1 <= Len(t) /\ SubSeq(t, p, p + Len(w) - 1) = w

\* The position of the next '"' at or after p, or 0.
RECURSIVE QuoteAt(_, _)
QuoteAt(t, p) == IF p > Len(t) THEN 0 ELSE IF t[p] = 34 THEN p ELSE QuoteAt(t, p + 1)

\* The end of the run of digits that starts at p.
RECURSIVE DigitsEnd(_, _)
DigitsEnd(t, p) == IF p <= Len(t) /\ t[p] \in 48..57 THEN DigitsEnd(t, p + 1) ELSE p

RECURSIVE NumberOf(_)
NumberOf(ds) == IF ds = <<>> THEN 0 ELSE 10 * NumberOf(SubSeq(ds, 1, Len(ds) - 1)) + (ds[Len(ds)] - 48)

\* A parse step's result: the allocation context, whether it succeeded, the
\* item and the position after it.
PR(h, ok, item, pos) == [h |-> h, ok |-> ok, item |-> item, pos |-> pos]

\* parse_value fills an item that is already allocated; parse_array and
\* parse_object allocate each child with cJSON_New_Item before parsing it,
\* and parse_object reads the child's key before its value.
RECURSIVE parse_value(_, _, _)
RECURSIVE parse_array(_, _, _, _)
RECURSIVE parse_object(_, _, _, _)
parse_value(h, t, p) ==
    IF p > Len(t) THEN PR(h, FALSE, NullItem, p)
    ELSE IF HasPrefix(t, p, T_null) THEN PR(h, TRUE, JNull, p + 4)
    ELSE IF HasPrefix(t, p, T_false) THEN PR(h, TRUE, JBool(FALSE), p + 5)
    ELSE IF HasPrefix(t, p, T_true) THEN PR(h, TRUE, JBool(TRUE), p + 4)
    ELSE IF t[p] = 34 THEN
        LET q == QuoteAt(t, p + 1)
        IN IF q = 0 THEN PR(h, FALSE, NullItem, p)
           ELSE LET h1 == HookMalloc(h, q - p)
                IN IF h1.ok THEN PR(h1, TRUE, JStr(SubSeq(t, p + 1, q - 1)), q + 1)
                   ELSE PR(h1, FALSE, NullItem, p)
    ELSE IF t[p] \in 48..57 THEN
        LET q == DigitsEnd(t, p)
        IN PR(h, TRUE, JNum(NumberOf(SubSeq(t, p, q - 1))), q)
    ELSE IF t[p] = 91 THEN
        LET p1 == SkipWs(t, p + 1)
        IN IF p1 <= Len(t) /\ t[p1] = 93 THEN PR(h, TRUE, JArr(<<>>), p1 + 1)
           ELSE parse_array(h, t, p1, <<>>)
    ELSE IF t[p] = 123 THEN
        LET p1 == SkipWs(t, p + 1)
        IN IF p1 <= Len(t) /\ t[p1] = 125 THEN PR(h, TRUE, JObj(<<>>), p1 + 1)
           ELSE parse_object(h, t, p1, <<>>)
    ELSE PR(h, FALSE, NullItem, p)

parse_array(h, t, p, acc) ==
    LET h1 == HookMalloc(h, SizeofCJSON)
    IN IF ~h1.ok THEN PR(h1, FALSE, NullItem, p)
       ELSE LET r == parse_value(h1, t, SkipWs(t, p))
                p2 == SkipWs(t, r.pos)
            IN IF ~r.ok \/ p2 > Len(t) THEN PR(r.h, FALSE, NullItem, p2)
               ELSE IF t[p2] = 44 THEN parse_array(r.h, t, p2 + 1, Append(acc, r.item))
               ELSE IF t[p2] = 93 THEN PR(r.h, TRUE, JArr(Append(acc, r.item)), p2 + 1)
               ELSE PR(r.h, FALSE, NullItem, p2)

parse_object(h, t, p, acc) ==
    LET h1 == HookMalloc(h, SizeofCJSON)
        p1 == SkipWs(t, p)
    IN IF ~h1.ok \/ p1 > Len(t) \/ t[p1] # 34 THEN PR(h1, FALSE, NullItem, p1)
       ELSE LET k == parse_value(h1, t, p1)
                p2 == SkipWs(t, k.pos)
            IN IF ~k.ok \/ p2 > Len(t) \/ t[p2] # 58 THEN PR(k.h, FALSE, NullItem, p2)
               ELSE LET r == parse_value(k.h, t, SkipWs(t, p2 + 1))
                        p3 == SkipWs(t, r.pos)
                        it == Key(k.item.valuestring, r.item)
                    IN IF ~r.ok \/ p3 > Len(t) THEN PR(r.h, FALSE, NullItem, p3)
                       ELSE IF t[p3] = 44 THEN parse_object(r.h, t, p3 + 1, Append(acc, it))
                       ELSE IF t[p3] = 125 THEN PR(r.h, TRUE, JObj(Append(acc, it)), p3 + 1)
                       ELSE PR(r.h, FALSE, NullItem, p3)

\* cJSON_Parse(buffer): allocates the root item, parses one value after
\* leading whitespace, and on any failure deletes what it built and returns
\* a null pointer.  Bytes after the value are not looked at.
\* A parser that hands back an empty object for a text it rejects.
RejectedAsEmpty(h, pos) == PR(h, FALSE, JObj(<<>>), pos)

\* cJSON_Parse's fail path: return NULL.
Rejected(h, pos) == PR(h, FALSE, NullItem, pos)

cJSON_Parse(h, t) ==
    LET h1 == HookMalloc(h, SizeofCJSON)
    IN IF ~h1.ok THEN Rejected(h1, 1)
       ELSE LET r == parse_value(h1, t, SkipWs(t, 1))
            IN IF r.ok THEN r
               ELSE Rejected(HookFree(r.h, r.h.live - h.live), r.pos)

-----------------------------------------------------------------------------
(* Walk state.  Both walks thread a record w:                               *)
(*   elems, mem   the caller's element storage and struct memory            *)
(*   h            the allocation context                                    *)
(*   tree, mode, garbage   the declared tree, the parse mode, and what an   *)
(*                access beyond a declared element array reads              *)
(*   ret          JX_ERROR once the walk has failed                         *)
(*   rd, we       indices of the elements read / written                    *)
(*   wm           addresses of the caller memory bytes written              *)
(*   oob          an element beyond a declared array was accessed           *)
(*   nullp        a null pointer was dereferenced                           *)
(*   missing      indices of the elements whose key the container lacked    *)
(*   matched      indices of the elements whose lookup found a node         *)
(*   mism         indices of the elements matched with a node of another    *)
(*                type than they declare                                    *)
(*   arr          <<index, n>> for every Array element matched with an      *)
(*                array node of n items                                     *)
(*   att          the attachments of newly built nodes, in the order they   *)
(*                were made                                                 *)
(* An element pointer is a pair of a base index and hi, the last index of   *)
(* the declared array the pointer points into.                              *)

\* The last index of the declared array that starts at el.
HiOf(t, el) ==
    IF \E r \in Arrays(t) : r[1] = el
    THEN (CHOOSE r \in Arrays(t) : r[1] = el)[2]
    ELSE 0

Inside(base, hi, i) == base # NULL /\ base + i <= hi

\* element[i], read.
ElemAt(w, base, hi, i) ==
    IF Inside(base, hi, i) THEN w.elems[base + i] ELSE w.garbage

Touch(w, base, hi, i) ==
    IF Inside(base, hi, i) THEN [w EXCEPT !.rd = @ \cup {base + i}]
    ELSE IF base = NULL THEN [w EXCEPT !.nullp = TRUE]
    ELSE [w EXCEPT !.oob = TRUE]

\* jx_set_updated / jx_clear_status on element[i].
SetStatus(w, base, hi, i, st) ==
    IF Inside(base, hi, i)
    THEN [w EXCEPT !.elems[base + i].status = st, !.we = @ \cup {base + i}]
    ELSE IF base = NULL THEN [w EXCEPT !.nullp = TRUE]
    ELSE [w EXCEPT !.oob = TRUE]

jx_set_updated(w, base, hi, i) == SetStatus(w, base, hi, i, JX_ELEMENT_UPDATED)

jx_clear_status(w, base, hi, i) == SetStatus(w, base, hi, i, JX_ELEMENT_NOT_UPDATED)

\* element[i].value_len = n
SetValueLen(w, base, hi, i, n) ==
    IF Inside(base, hi, i)
    THEN [w EXCEPT !.elems[base + i].value_len = n, !.we = @ \cup {base + i}]
    ELSE IF base = NULL THEN [w EXCEPT !.nullp = TRUE]
    ELSE [w EXCEPT !.oob = TRUE]

\* A store of the bytes bs through value_p.
Store(w, vp, bs) ==
    IF vp = NULL THEN [w EXCEPT !.nullp = TRUE]
    ELSE [w EXCEPT !.mem = WriteBytes(@, vp, bs),
                   !.wm = @ \cup (vp .. (vp + Len(bs) - 1))]

\* *((uint32_t *)value_p) = 0, then jx_set_updated.
jx_set_null_u32(w, base, hi, i) ==
    jx_set_updated(Store(w, ElemAt(w, base, hi, i).value_p, <<0, 0, 0, 0>>), base, hi, i)

\* *((bool *)value_p) = value, then jx_set_updated.
jx_set_bool(w, base, hi, i, value) ==
    jx_set_updated(Store(w, ElemAt(w, base, hi, i).value_p, BoolByte(value)), base, hi, i)

\* *((double *)value_p) = value, then jx_set_updated.
jx_set_number(w, base, hi, i, value) ==
    jx_set_updated(Store(w, ElemAt(w, base, hi, i).value_p, DoubleBytes(value)), base, hi, i)

\* The number of bytes jx_set_string's strncpy writes.
StringCopySize == JX_PROPERTY_MAX_SIZE

\* A copy of the whole string and its NUL, as strcpy makes it.
CopyWhole(w, base, hi, i, value) ==
    jx_set_updated(Store(w, ElemAt(w, base, hi, i).value_p, value \o <<0>>), base, hi, i)

\* strncpy(value_p, value, JX_PROPERTY_MAX_SIZE), then jx_set_updated:
\* strncpy copies value up to its NUL and pads with NUL bytes until exactly
\* n bytes are written.
jx_set_string(w, base, hi, i, value) ==
    LET n == StringCopySize
        bs == [k \in 1..n |-> IF k <= Len(value) THEN value[k] ELSE 0]
    IN jx_set_updated(Store(w, ElemAt(w, base, hi, i).value_p, bs), base, hi, i)

-----------------------------------------------------------------------------
(* Decode: _jx_object_to_struct.                                            *)

\* The type test of a scalar case of the switch.
ScalarMatches(e, object) ==
    CASE e.type = JX_NULL -> cJSON_IsNull(object)
      [] e.type = JX_BOOLEAN -> cJSON_IsBool(object)
      [] e.type = JX_NUMBER -> cJSON_IsNumber(object)
      [] e.type = JX_STRING -> cJSON_IsString(object)
      [] OTHER -> FALSE

\* Whether the node has the type the element declares.
TypeMatches(e, object) ==
    CASE e.type = JX_OBJECT -> cJSON_IsObject(object)
      [] e.type = JX_ARRAY -> cJSON_IsArray(object)
      [] OTHER -> ScalarMatches(e, object)

\* Notes for last: element[i] was looked up and not found; element[i] was
\* matched with the node object.
NoteMissing(w, base, hi, i) ==
    IF Inside(base, hi, i) THEN [w EXCEPT !.missing = @ \cup {base + i}] ELSE w

NoteMatch(w, object, base, hi, i) ==
    IF ~Inside(base, hi, i) THEN w
    ELSE LET e == w.elems[base + i]
         IN [w EXCEPT !.matched = @ \cup {base + i},
                      !.mism = IF e.type # JX_INVALID /\ ~TypeMatches(e, object)
                                THEN @ \cup {base + i} ELSE @,
                      !.arr = IF e.type = JX_ARRAY /\ cJSON_IsArray(object)
                               THEN @ \cup {<<base + i, cJSON_GetArraySize(object)>>}
                               ELSE @]

\* The size handed to the walk of array item j's element.
ItemSize(len) == IF len # 0 THEN len ELSE 1

\* A walk that skips an absent element in either mode.
AbsentIgnored(mode) == FALSE

\* Whether an element whose key is absent ends the walk with JX_ERROR.
AbsentFails(mode) == mode = JX_MODE_STRICT

\* The status an array child is left with after its item was walked.
AfterItem(w, base, hi, j) == jx_set_updated(w, base, hi, j)

RECURSIVE jx_object_to_struct(_, _, _, _, _)
RECURSIVE OtsLoop(_, _, _, _, _, _)
RECURSIVE OtsArray(_, _, _, _, _, _)

\* The for loop over array items j of element[i] (case JX_ARRAY).
OtsArray(w, object, base, hi, i, j) ==
    LET e == ElemAt(w, base, hi, i)
    IN IF j >= e.value_len THEN w
       ELSE LET item == cJSON_GetArrayItem(object, j)
            IN IF item = NullItem \/ e.element = NULL
               THEN OtsArray(w, object, base, hi, i, j + 1)
               ELSE LET chi == HiOf(w.tree, e.element)
                        w1 == Touch(w, e.element, chi, j)
                        len == ElemAt(w1, e.element, chi, j).value_len
                        r == jx_object_to_struct(w1, item, e.element + j, chi, ItemSize(len))
                    IN IF r.ret # JX_SUCCESS THEN r
                       ELSE OtsArray(AfterItem(r, e.element, chi, j),
                                     object, base, hi, i, j + 1)

\* The switch on element[i].type for a matched node.
OtsCase(w, object, base, hi, i) ==
    LET e == ElemAt(w, base, hi, i)
    IN CASE e.type = JX_NULL ->
              IF ScalarMatches(e, object) THEN jx_set_null_u32(w, base, hi, i)
              ELSE jx_clear_status(w, base, hi, i)
         [] e.type = JX_BOOLEAN ->
              IF ScalarMatches(e, object) THEN jx_set_bool(w, base, hi, i, cJSON_IsTrue(object))
              ELSE jx_clear_status(w, base, hi, i)
         [] e.type = JX_NUMBER ->
              IF ScalarMatches(e, object) THEN jx_set_number(w, base, hi, i, object.valuedouble)
              ELSE jx_clear_status(w, base, hi, i)
         [] e.type = JX_STRING ->
              IF ScalarMatches(e, object) THEN jx_set_string(w, base, hi, i, object.valuestring)
              ELSE jx_clear_status(w, base, hi, i)
         [] e.type = JX_OBJECT ->
              IF cJSON_IsObject(object)
              THEN LET r == jx_object_to_struct(w, object, e.element,
                                                HiOf(w.tree, e.element), e.value_len)
                   IN IF r.ret # JX_SUCCESS THEN r ELSE jx_set_updated(r, base, hi, i)
              ELSE jx_clear_status(w, base, hi, i)
         [] e.type = JX_ARRAY ->
              LET w1 == SetValueLen(w, base, hi, i, cJSON_GetArraySize(object) % Uint8)
                  r == OtsArray(w1, object, base, hi, i, 0)
              IN IF r.ret # JX_SUCCESS THEN r ELSE jx_set_updated(r, base, hi, i)
         [] OTHER -> w

\* The for loop over element[0 .. size-1].  JX_RETURN_IF_NULL(&element[i])
\* returns false, which is JX_SUCCESS, when element is null and i is 0.
OtsLoop(w, main_object, base, hi, size, i) ==
    IF i >= size THEN w
    ELSE IF base = NULL /\ i = 0 THEN w
    ELSE LET e == ElemAt(w, base, hi, i)
             w1 == Touch(w, base, hi, i)
             object == IF e.property # <<>>
                       THEN cJSON_GetObjectItemCaseSensitive(main_object, e.property)
                       ELSE main_object
         IN IF object = NullItem
            THEN IF AbsentFails(w.mode)
                 THEN [NoteMissing(w1, base, hi, i) EXCEPT !.ret = JX_ERROR]
                 ELSE OtsLoop(NoteMissing(w1, base, hi, i), main_object, base, hi, size, i + 1)
            ELSE LET r == OtsCase(NoteMatch(w1, object, base, hi, i), object, base, hi, i)
                 IN IF r.ret # JX_SUCCESS THEN r
                    ELSE OtsLoop(r, main_object, base, hi, size, i + 1)

jx_object_to_struct(w, main_object, base, hi, size) ==
    IF main_object = NullItem THEN [w EXCEPT !.ret = JX_ERROR]
    ELSE OtsLoop(w, main_object, base, hi, size, 0)

-----------------------------------------------------------------------------
(* Encode: _jx_struct_to_object.                                            *)
(* The local variable node is a record: st is "null" (a null pointer),      *)
(* "new" (just created), "attached" (the last child of the container being  *)
(* built), "loose" (valid, attached nowhere) or "freed" (deleted: the       *)
(* pointer dangles); item is the item it points to.                         *)

NodeVar(st, item) == [st |-> st, item |-> item]

NullNode == NodeVar("null", NullItem)

\* The build deletes items itself unless it is the static arena build:
\* #if !defined(JX_USE_BAREMETAL) || defined(JX_USE_HEAP_BAREMETAL).
Deletes(w) == w.backend # "static"

\* The blocks cJSON_Delete releases for an item: the item, its string
\* value, its key, and its children's.
RECURSIVE BlockCount(_)
RECURSIVE BlockSum(_, _)
BlockSum(c, k) == IF k > Len(c) THEN 0 ELSE BlockCount(c[k]) + BlockSum(c, k + 1)

BlockCount(o) ==
    1 + (IF o.type = cJSON_String THEN 1 ELSE 0)
      + (IF o.string # NoKey THEN 1 ELSE 0)
      + BlockSum(o.child, 1)

\* cJSON_Delete(item): a cyclic child list is walked over freed memory.
cJSON_Delete(w, o) ==
    [w EXCEPT !.h = HookFree(@, BlockCount(o)),
              !.uaf = @ \/ HasLoop(o)]

RECURSIVE jx_struct_to_object(_, _, _, _, _)
RECURSIVE StoLoop(_, _, _, _, _, _, _)
RECURSIVE StoCreated(_, _, _, _, _, _, _)
RECURSIVE StoAttached(_, _, _, _, _, _, _)

\* The switch on element[i].type: the value of node after it, or fail when
\* the walk returns JX_ERROR from inside the switch.
StoCreate(w, e, nv) ==
    CASE e.type = JX_STRING ->
           IF e.value_p = NULL
           THEN LET h1 == HookMalloc(w.h, SizeofCJSON)
                IN [w |-> [w EXCEPT !.h = IF h1.ok THEN HookFree(h1, 1) ELSE h1],
                    nv |-> NullNode, fail |-> FALSE]
           ELSE LET str == CString(w.mem, e.value_p)
                    h1 == cJSON_CreateString(w.h, str)
                IN [w |-> [w EXCEPT !.h = h1],
                    nv |-> IF h1.ok THEN NodeVar("new", JStr(str)) ELSE NullNode,
                    fail |-> FALSE]
      [] e.type = JX_BOOLEAN ->
           LET h1 == cJSON_CreateBool(w.h)
               v == IF e.value_p = NULL THEN FALSE ELSE w.mem[e.value_p] # 0
           IN [w |-> [w EXCEPT !.h = h1, !.nullp = @ \/ e.value_p = NULL],
               nv |-> IF h1.ok THEN NodeVar("new", JBool(v)) ELSE NullNode,
               fail |-> FALSE]
      [] e.type = JX_NUMBER ->
           LET h1 == cJSON_CreateNumber(w.h)
               v == IF e.value_p = NULL THEN 0 ELSE DoubleOf(ReadBytes(w.mem, e.value_p, 8))
           IN [w |-> [w EXCEPT !.h = h1, !.nullp = @ \/ e.value_p = NULL],
               nv |-> IF h1.ok THEN NodeVar("new", JNum(v)) ELSE NullNode,
               fail |-> FALSE]
      [] e.type \in {JX_OBJECT, JX_ARRAY} ->
           LET h1 == IF e.type = JX_OBJECT THEN cJSON_CreateObject(w.h)
                     ELSE cJSON_CreateArray(w.h)
               node == IF ~h1.ok THEN NullItem
                       ELSE IF e.type = JX_OBJECT THEN JObj(<<>>) ELSE JArr(<<>>)
               r == jx_struct_to_object([w EXCEPT !.h = h1], node, e.element,
                                        HiOf(w.tree, e.element), e.value_len)
           IN [w |-> r, nv |-> NodeVar("new", r.out), fail |-> r.ret # JX_SUCCESS]
      [] OTHER -> [w |-> w, nv |-> nv, fail |-> FALSE]

\* if (node) { added = ...AddItemToArray / AddItemToObject...;
\*             if (!added) cJSON_Delete(node) }.
\* cJSON_AddItemToObject copies the key first and fails when the copy cannot
\* be allocated; it releases the key the item had and links the item after
\* the last child.  Linking the item that already is the last child makes
\* its next pointer point at itself.
\* The key cJSON_AddItemToObject gives the item, always.
KeyedAlways(isArray, item, prop) == prop

\* The key of the item once it is linked: cJSON_AddItemToArray leaves the
\* item's own, cJSON_AddItemToObject replaces it by a copy of prop.
AttachKey(isArray, item, prop) == IF isArray THEN item.string ELSE prop

StoAttach(w, object, prop, nv) ==
    IF nv.st = "null" THEN [w |-> w, object |-> object, nv |-> nv]
    ELSE IF nv.st = "freed" THEN [w |-> [w EXCEPT !.uaf = TRUE], object |-> object, nv |-> nv]
    ELSE LET isArray == object.type = cJSON_Array
             h1 == IF isArray THEN w.h ELSE HookMalloc(w.h, Len(prop) + 1)
             added == isArray \/ h1.ok
             key == AttachKey(isArray, nv.item, prop)
             h2 == IF added /\ ~isArray /\ nv.item.string # NoKey THEN HookFree(h1, 1) ELSE h1
             tail == Len(object.child)
         IN IF added
            THEN [w |-> [w EXCEPT !.h = h2],
                  object |-> IF nv.st = "attached"
                             THEN [object EXCEPT !.child[tail].string = key, !.loop = TRUE]
                             ELSE [object EXCEPT !.child = Append(@, Key(key, nv.item)),
                                                 !.loop = FALSE],
                  nv |-> NodeVar("attached", Key(key, nv.item))]
            ELSE IF Deletes(w)
                 THEN [w |-> [cJSON_Delete([w EXCEPT !.h = h1], nv.item)
                                EXCEPT !.uaf = @ \/ nv.st = "attached"],
                       object |-> object, nv |-> NodeVar("freed", nv.item)]
                 ELSE [w |-> [w EXCEPT !.h = h1], object |-> object,
                       nv |-> IF nv.st = "attached" THEN nv ELSE NodeVar("loose", nv.item)]

\* The record of one attachment: the node built for element[i] of the array
\* at base has become the last child of object.
Attached(object, base, i, e) ==
    [base |-> base, i |-> i, prop |-> e.property, parent |-> object.type,
     pos |-> Len(object.child), key |-> object.child[Len(object.child)].string]

\* The for loop over element[0 .. size-1]; out is the container as built.
StoLoop(w, object, base, hi, size, i, nv) ==
    IF i >= size THEN [w EXCEPT !.out = object]
    ELSE StoCreated(StoCreate(Touch(w, base, hi, i), ElemAt(w, base, hi, i), nv),
                    ElemAt(w, base, hi, i), object, base, hi, size, i)

\* The loop body after the switch, c being what the switch left: return
\* JX_ERROR from inside it, or go on to `if (node)`.
StoCreated(c, e, object, base, hi, size, i) ==
    IF c.fail THEN [c.w EXCEPT !.ret = JX_ERROR, !.out = object]
    ELSE StoAttached(StoAttach(c.w, object, e.property, c.nv), c.nv.st = "new",
                     e, base, hi, size, i)

\* The end of the loop body, a being what `if (node)` left: the attachment
\* of a newly built node is noted, and the loop goes on with ++i.
StoAttached(a, new, e, base, hi, size, i) ==
    StoLoop(IF new /\ a.nv.st = "attached"
            THEN [a.w EXCEPT !.att = Append(@, Attached(a.object, base, i, e))]
            ELSE a.w,
            a.object, base, hi, size, i + 1, a.nv)

jx_struct_to_object(w, object, base, hi, size) ==
    IF object = NullItem \/ size = 0 THEN [w EXCEPT !.ret = JX_ERROR, !.out = object]
    ELSE StoLoop(w, object, base, hi, size, 0, NullNode)

-----------------------------------------------------------------------------
(* The parser session and the allocator behind it.                          *)

Backends == {"threadx", "heap", "static", "custom"}

\* ALIGN_4(sizeof(JX_PARSER)) and ALIGN_4(sizeof(jx_static_allocator_t)) in
\* the static build on a 32-bit target: state, status, three hooks and the
\* allocator pointer; pool_start, pool_size and pool_offset.
SizeofParser == 24
SizeofAllocator == 12

Hooks(m, f, r) == [malloc_fn |-> m, free_fn |-> f, reset_fn |-> r]

NoHooks == Hooks("NULL", "NULL", "NULL")

\* A JX_PARSER block at ptr after memset(JSON_Parser, 0, sizeof(JX_PARSER)).
ZeroParser(ptr) ==
    [ptr |-> ptr, state |-> JX_RESET, hooks |-> NoHooks,
     byte_pool |-> "NULL", allocator |-> NULL]

\* JSON_Parser == NULL
NoParser == ZeroParser(NULL)

\* cJSON_InitHooks: a null function pointer selects the C library's.
cJSON_InitHooks(m, f) ==
    [malloc_fn |-> IF m = "NULL" THEN "malloc" ELSE m,
     free_fn |-> IF f = "NULL" THEN "free" ELSE f]

NoAllocator == [ptr |-> NULL, pool_start |-> 0, pool_size |-> 0, pool_offset |-> 0]

\* jx_static_allocator_init(buffer, size): the new value of the static
\* allocator; it is left alone when the arguments are rejected.
jx_static_allocator_init(a, buf, size) ==
    IF buf = NULL \/ size < ALIGN_4(SizeofAllocator) THEN a
    ELSE [ptr |-> buf,
          pool_start |-> buf + ALIGN_4(SizeofAllocator),
          pool_size |-> size - ALIGN_4(SizeofAllocator),
          pool_offset |-> 0]

\* Its return value: the allocator, or NULL when the arguments are rejected.
AllocatorInitResult(buf, size) ==
    IF buf = NULL \/ size < ALIGN_4(SizeofAllocator) THEN NULL ELSE buf

\* jx_static_reset()
jx_static_reset(a) == IF a.ptr # NULL THEN [a EXCEPT !.pool_offset = 0] ELSE a

\* The session as a caller sees it before a call.
SessionState == IF JSON_Parser.ptr = NULL THEN "none" ELSE JSON_Parser.state

\* The record of an API call; fields a call does not use keep these values.
NoCall ==
    [op |-> "none", ret |-> JX_SUCCESS, valid |-> TRUE, before |-> "none",
     text |-> <<>>, mode |-> JX_MODE_RELAXED, size |-> 0,
     rd |-> {}, we |-> {}, wm |-> {}, oob |-> FALSE, nullp |-> FALSE, uaf |-> FALSE,
     missing |-> {}, matched |-> {}, mism |-> {}, arr |-> {},
     parsed |-> FALSE, failed |-> FALSE, allocs |-> 0, live |-> 0, granted |-> TRUE,
     blocks |-> <<>>, att |-> <<>>]

\* The addresses of the caller's arena buffer and of a host block.
BufA == 1000
HostBlock == 2000

\* The session blocks the host allocator (byte pool, heap, or the memory
\* behind the user's hooks) has room for.
MaxSessionBlocks == 2

\* A request for a session block succeeds when no other user of the host
\* allocator holds the memory (granted) and the blocks handed out before
\* and not released leave room for it.
HostGrants(granted) == granted /\ host.session < MaxSessionBlocks

\* The buffer sizes jx_init(buffer, size) is called with: too small for the
\* session block, too small for the allocator, a small pool, example.c's.
InitSizes == {20, 28, 136, 1024}

\* jx_init(TX_BYTE_POOL *byte_pool); granted says whether tx_byte_allocate
\* finds the memory.
jx_init_threadx(byte_pool, granted) ==
    /\ backend = "threadx"
    /\ LET rejected == byte_pool = "NULL" \/ JSON_Parser.ptr # NULL
           ok == ~rejected /\ HostGrants(granted)
       IN /\ JSON_Parser' =
               IF ok
               THEN [ZeroParser(HostBlock) EXCEPT
                       !.byte_pool = byte_pool,
                       !.hooks = Hooks("jx_alloc_memory", "jx_free_memory", "NULL"),
                       !.state = JX_INITIALIZED]
               ELSE IF rejected THEN JSON_Parser ELSE NoParser
          /\ cjson_hooks' = IF ok THEN cJSON_InitHooks("jx_alloc_memory", "jx_free_memory")
                            ELSE cjson_hooks
          /\ host' = IF ok THEN [host EXCEPT !.session = @ + 1] ELSE host
          /\ last' = [NoCall EXCEPT !.op = "jx_init", !.before = SessionState,
                        !.valid = byte_pool # "NULL", !.failed = ~rejected /\ ~HostGrants(granted),
                        !.granted = rejected \/ granted,
                        !.ret = IF ok THEN JX_SUCCESS ELSE JX_ERROR]
    /\ UNCHANGED <<backend, allocator, tree, elems, mem, buffer, calls>>

\* The session block of the FreeRTOS and heap builds once jx_init has
\* filled it in.
HeapSession ==
    [ZeroParser(HostBlock) EXCEPT
       !.hooks = Hooks("jx_alloc_memory", "jx_free_memory", "NULL"),
       !.state = JX_INITIALIZED]

\* jx_init(void) of the FreeRTOS and heap builds.
jx_init_heap(granted) ==
    /\ backend = "heap"
    /\ LET rejected == JSON_Parser.ptr # NULL
           ok == ~rejected /\ HostGrants(granted)
       IN /\ JSON_Parser' =
               IF ok THEN HeapSession
               ELSE IF rejected THEN JSON_Parser ELSE NoParser
          /\ cjson_hooks' = IF ok THEN cJSON_InitHooks("jx_alloc_memory", "jx_free_memory")
                            ELSE cjson_hooks
          /\ host' = IF ok THEN [host EXCEPT !.session = @ + 1] ELSE host
          /\ last' = [NoCall EXCEPT !.op = "jx_init", !.before = SessionState,
                        !.valid = TRUE, !.failed = ~rejected /\ ~HostGrants(granted),
                        !.granted = rejected \/ granted,
                        !.ret = IF ok THEN JX_SUCCESS ELSE JX_ERROR]
    /\ UNCHANGED <<backend, allocator, tree, elems, mem, buffer, calls>>

\* jx_init(void *buffer, size_t size) of the static build.
jx_init_static(buf, size) ==
    /\ backend = "static"
    /\ LET rejected == buf = NULL \/ size < ALIGN_4(SizeofParser)
           rest == buf + ALIGN_4(SizeofParser)
           left == size - ALIGN_4(SizeofParser)
           a == AllocatorInitResult(rest, left)
       IN /\ allocator' = IF rejected THEN allocator
                          ELSE jx_static_allocator_init(allocator, rest, left)
          /\ JSON_Parser' =
               IF rejected THEN JSON_Parser
               ELSE IF a = NULL THEN ZeroParser(buf)
               ELSE [ZeroParser(buf) EXCEPT
                       !.allocator = a,
                       !.hooks = Hooks("jx_static_malloc", "jx_static_free", "jx_static_reset"),
                       !.state = JX_INITIALIZED]
          /\ cjson_hooks' = IF rejected \/ a = NULL THEN cjson_hooks
                            ELSE cJSON_InitHooks("jx_static_malloc", "jx_static_free")
          /\ last' = [NoCall EXCEPT !.op = "jx_init", !.before = SessionState,
                        !.valid = buf # NULL /\ size >= ALIGN_4(SizeofParser)
                                              + ALIGN_4(SizeofAllocator),
                        !.size = size,
                        !.ret = IF rejected \/ a = NULL THEN JX_ERROR ELSE JX_SUCCESS]
    /\ UNCHANGED <<backend, host, tree, elems, mem, buffer, calls>>

\* The JX_HOOKS * arguments jx_init(JX_HOOKS *hooks) is called with; given
\* is false for a null pointer.
HookArg(given, m, f) == [given |-> given, malloc_fn |-> m, free_fn |-> f]

HookArgs ==
    { HookArg(FALSE, "NULL", "NULL"), HookArg(TRUE, "user_malloc", "user_free"),
      HookArg(TRUE, "NULL", "user_free"), HookArg(TRUE, "user_malloc", "NULL") }

HooksValid(hooks) == hooks.given /\ hooks.malloc_fn # "NULL" /\ hooks.free_fn # "NULL"

\* jx_init(JX_HOOKS *hooks) of the custom allocator build.
jx_init_custom(hooks, granted) ==
    /\ backend = "custom"
    /\ LET rejected == ~HooksValid(hooks) \/ JSON_Parser.ptr # NULL
           ok == ~rejected /\ HostGrants(granted)
       IN /\ JSON_Parser' =
               IF ok
               THEN [ZeroParser(HostBlock) EXCEPT
                       !.hooks = Hooks(hooks.malloc_fn, hooks.free_fn, "NULL"),
                       !.state = JX_INITIALIZED]
               ELSE IF rejected THEN JSON_Parser ELSE NoParser
          /\ cjson_hooks' = IF ok THEN cJSON_InitHooks(hooks.malloc_fn, hooks.free_fn)
                            ELSE cjson_hooks
          /\ host' = IF ok THEN [host EXCEPT !.session = @ + 1] ELSE host
          /\ last' = [NoCall EXCEPT !.op = "jx_init", !.before = SessionState,
                        !.valid = HooksValid(hooks), !.failed = ~rejected /\ ~HostGrants(granted),
                        !.granted = rejected \/ granted,
                        !.ret = IF ok THEN JX_SUCCESS ELSE JX_ERROR]
    /\ UNCHANGED <<backend, allocator, tree, elems, mem, buffer, calls>>

\* jx_free_memory(JSON_Parser) as jx_parser_deinit calls it, after the
\* memset: does it release the block?  The custom build returns early when
\* JSON_Parser->hooks.free_fn is null.
DeinitReleases(b) ==
    CASE b = "static" -> FALSE
      [] b = "custom" -> FALSE
      [] OTHER -> TRUE

\* jx_parser_deinit(void)
jx_parser_deinit ==
    /\ IF JSON_Parser.ptr = NULL
       THEN UNCHANGED <<JSON_Parser, cjson_hooks, host>>
       ELSE /\ cjson_hooks' = cJSON_InitHooks("NULL", "NULL")
            /\ host' = IF DeinitReleases(backend) THEN [host EXCEPT !.session = @ - 1]
                       ELSE host
            /\ JSON_Parser' = NoParser
    /\ last' = [NoCall EXCEPT !.op = "jx_parser_deinit", !.before = SessionState]
    /\ UNCHANGED <<backend, allocator, tree, elems, mem, buffer, calls>>

-----------------------------------------------------------------------------
(* The high-level interface.                                                *)

\* The allocation context of one API call: cJSON's hooks as they stand, the
\* arena as the call finds it, and the host allocator's quota.
Heap(a, quota) ==
    [malloc_fn |-> cjson_hooks.malloc_fn, free_fn |-> cjson_hooks.free_fn,
     alloc_ptr |-> a.ptr, pool_size |-> a.pool_size, pool_offset |-> a.pool_offset,
     blocks |-> <<>>, quota |-> quota, live |-> 0, freed |-> 0,
     ok |-> TRUE, failed |-> FALSE]

\* The walk state at the start of a call.
Walk(h, mode, garbage) ==
    [elems |-> elems, mem |-> mem, h |-> h, tree |-> tree, mode |-> mode,
     garbage |-> garbage, backend |-> backend, ret |-> JX_SUCCESS, out |-> NullItem,
     rd |-> {}, we |-> {}, wm |-> {}, oob |-> FALSE, nullp |-> FALSE, uaf |-> FALSE,
     missing |-> {}, matched |-> {}, mism |-> {}, arr |-> {}, att |-> <<>>]

\* An entry that leaves the arena as the call found it.
EntryKept(a) == a

\* #if defined(JX_USE_BAREMETAL) && !defined(JX_USE_HEAP_BAREMETAL)
\*     jx_static_reset();
EntryReset(a) == IF backend = "static" THEN jx_static_reset(a) ELSE a

\* The number of successful allocations of a call.
AllocCount(h, quota) ==
    IF h.malloc_fn = "jx_static_malloc" THEN Len(h.blocks) ELSE quota - h.quota

\* The record of a walk's effects for last.
CallRecord(op, w, before, quota, ret) ==
    [NoCall EXCEPT !.op = op, !.ret = ret, !.before = before,
                   !.rd = w.rd, !.we = w.we, !.wm = w.wm, !.oob = w.oob,
                   !.nullp = w.nullp, !.uaf = w.uaf, !.failed = w.h.failed,
                   !.missing = w.missing, !.matched = w.matched,
                   !.mism = w.mism, !.arr = w.arr,
                   !.allocs = AllocCount(w.h, quota), !.live = w.h.live,
                   !.blocks = w.h.blocks, !.att = w.att]

\* cJSON_Delete(object) at the end of a call, where the build has it.
FinalDelete(w, o) == IF Deletes(w) THEN cJSON_Delete(w, o) ELSE w

\* What a failed cJSON_PrintPreallocated leaves in the caller's buffer: the
\* bytes printed before the output ran out.
Partial(o, buffer_size, fmt) ==
    IF HasLoop(o) THEN [k \in 1..buffer_size |-> 91]
    ELSE LET t == print_value(o, fmt, 1)
         IN SubSeq(t, 1, Min(Len(t), buffer_size))

\* The number of encode and decode calls a behaviour of the model makes.
MaxCalls == 2

\* The buffer sizes and formats jx_struct_to_json is called with.
BufferSizes == {16, 256}

Formats == {JX_MINIFIED, JX_FORMATTED}

\* jx_struct_to_json(element, element_size, buffer, buffer_size, format) on
\* the caller's tree.
jx_struct_to_json(buffer_size, format, quota, garbage) ==
    LET a == EntryReset(allocator)
        h1 == cJSON_CreateObject(Heap(a, quota))
        w0 == Walk(h1, JX_MODE_RELAXED, garbage)
        r == jx_struct_to_object(w0, JObj(<<>>), TopBase(tree),
                                 HiOf(tree, TopBase(tree)), TopSize(tree))
        text == cJSON_PrintPreallocated(r.out, buffer_size, format # JX_MINIFIED)
        ret == IF h1.ok /\ r.ret = JX_SUCCESS /\ text # <<>> THEN JX_SUCCESS ELSE JX_ERROR
        w == IF ~h1.ok THEN w0 ELSE FinalDelete(r, r.out)
    IN /\ calls < MaxCalls
       /\ calls' = calls + 1
       /\ allocator' = [a EXCEPT !.pool_offset = w.h.pool_offset]
       /\ buffer' = IF ~h1.ok \/ r.ret # JX_SUCCESS THEN buffer
                    ELSE IF text # <<>> THEN text
                    ELSE Partial(r.out, buffer_size, format # JX_MINIFIED)
       /\ last' = [CallRecord("jx_struct_to_json", w, SessionState, quota, ret)
                     EXCEPT !.size = buffer_size]
       /\ UNCHANGED <<backend, JSON_Parser, cjson_hooks, host, tree, elems, mem>>

\* jx_json_to_struct(buffer, element, element_size, mode) on the caller's
\* tree.
jx_json_to_struct(text, mode, quota, garbage) ==
    LET a == EntryReset(allocator)
        p == cJSON_Parse(Heap(a, quota), text)
        w0 == Walk(p.h, mode, garbage)
        r == jx_object_to_struct(w0, p.item, TopBase(tree),
                                 HiOf(tree, TopBase(tree)), TopSize(tree))
        w == IF p.item = NullItem THEN w0 ELSE FinalDelete(r, p.item)
        ret == IF p.item = NullItem THEN JX_ERROR ELSE r.ret
    IN /\ calls < MaxCalls
       /\ calls' = calls + 1
       /\ allocator' = [a EXCEPT !.pool_offset = w.h.pool_offset]
       /\ elems' = w.elems
       /\ mem' = w.mem
       /\ last' = [CallRecord("jx_json_to_struct", w, SessionState, quota, ret)
                     EXCEPT !.text = text, !.mode = mode, !.parsed = p.ok]
       /\ UNCHANGED <<backend, JSON_Parser, cjson_hooks, host, tree, buffer>>

-----------------------------------------------------------------------------
(* The allocator interface as the caller uses it in the static build.       *)

\* The number of calls a behaviour of the arena specification makes.
MaxArenaCalls == 4

\* The effect of one allocate call of the caller on the model's state.
CallerAlloc(op, h, size) ==
    /\ calls < MaxArenaCalls
    /\ calls' = calls + 1
    /\ allocator' = [allocator EXCEPT !.pool_offset = h.pool_offset]
    /\ host' = [host EXCEPT !.user = @ \cup {h.blocks[k] : k \in 1..Len(h.blocks)}]
    /\ last' = [NoCall EXCEPT !.op = op, !.before = SessionState, !.size = size,
                  !.failed = h.failed, !.blocks = h.blocks]
    /\ UNCHANGED <<backend, JSON_Parser, cjson_hooks, tree, elems, mem, buffer>>

\* jx_alloc_memory(memory_size) of the static build.
jx_alloc_memory(memory_size) ==
    /\ backend = "static"
    /\ CallerAlloc("jx_alloc_memory",
                   jx_static_malloc(Heap(allocator, 0), ALIGN_4(memory_size)), memory_size)

\* jx_static_malloc(size) called directly.
StaticMalloc(size) ==
    /\ backend = "static"
    /\ CallerAlloc("jx_static_malloc", jx_static_malloc(Heap(allocator, 0), size), size)

\* jx_static_free(ptr) and jx_free_memory(ptr) of the static build: (void)ptr.
jx_static_free(op) ==
    /\ backend = "static"
    /\ calls < MaxArenaCalls
    /\ calls' = calls + 1
    /\ last' = [NoCall EXCEPT !.op = op, !.before = SessionState]
    /\ UNCHANGED <<backend, JSON_Parser, cjson_hooks, allocator, host, tree, elems, mem,
                   buffer>>

\* jx_static_reset() called directly: the caller gives up its blocks.
StaticReset ==
    /\ backend = "static"
    /\ calls < MaxArenaCalls
    /\ calls' = calls + 1
    /\ allocator' = jx_static_reset(allocator)
    /\ host' = [host EXCEPT !.user = {}]
    /\ last' = [NoCall EXCEPT !.op = "jx_static_reset", !.before = SessionState]
    /\ UNCHANGED <<backend, JSON_Parser, cjson_hooks, tree, elems, mem, buffer>>

-----------------------------------------------------------------------------
(* The documents the caller decodes, per declared tree.                     *)

Addr1 == JObj(<<Key(P.zip, JNum(56)), Key(P.ok, JBool(FALSE))>>)
Addr2 == JObj(<<Key(P.zip, JNum(78)), Key(P.ok, JBool(TRUE))>>)

\* The document that holds every declared key with the declared type; for
\* the example tree it is example.c's input.
FullDoc(t) ==
    CASE t \in {"example", "reordered"} ->
           JObj(<<Key(P.name, JStr(S_Eve)), Key(P.position, JArr(<<JNum(56), JNum(78)>>))>>)
      [] t = "person" ->
           JObj(<<Key(P.person, JObj(<<Key(P.Skills, JArr(<<JStr(S_Eve), JStr(S_Adam)>>)),
                                       Key(P.Addresses, JArr(<<Addr1, Addr2>>))>>))>>)
      [] t = "record" ->
           JObj(<<Key(P.flag, JBool(FALSE)), Key(P.nothing, JNull), Key(P.num, JNum(56)),
                  Key(P.text, JStr(S_Eve)), Key(P.inner, JObj(<<Key(P.k, JNum(78))>>))>>)
      [] t = "empty" ->
           JObj(<<Key(P.num, JNum(56)), Key(P.inner, JObj(<<>>))>>)
      [] t = "unbound" ->
           JObj(<<Key(P.num, JNum(56)), Key(P.flag, JBool(TRUE)), Key(P.text, JStr(S_Eve))>>)

\* What the full document holds for each bound leaf, as <<address, bytes>>.
FullValues(t) ==
    CASE t \in {"example", "reordered"} ->
           <<<<1, S_Eve \o <<0>>>>, <<33, DoubleBytes(56)>>, <<41, DoubleBytes(78)>>>>
      [] t = "person" ->
           <<<<1, S_Eve \o <<0>>>>, <<33, S_Adam \o <<0>>>>,
             <<65, DoubleBytes(56)>>, <<73, BoolByte(FALSE)>>,
             <<81, DoubleBytes(78)>>, <<89, BoolByte(TRUE)>>>>
      [] t = "record" ->
           <<<<1, BoolByte(FALSE)>>, <<5, <<0, 0, 0, 0>>>>, <<9, DoubleBytes(56)>>,
             <<17, S_Eve \o <<0>>>>, <<73, DoubleBytes(78)>>>>
      [] t \in {"empty", "unbound"} -> <<<<1, DoubleBytes(56)>>>>

\* Documents with arrays shorter than declared, with keys missing at the
\* top and at nested levels, with arrays longer than declared, and with
\* values of other types than declared.
OtherDocs(t) ==
    CASE t = "example" ->
           { JObj(<<Key(P.position, JArr(<<JNum(12)>>))>>),
             JObj(<<Key(P.name, JStr(S_Adam))>>),
             JObj(<<Key(P.name, JStr(S_Eve)),
                    Key(P.position, JArr(<<JNum(56), JNum(78), JNum(12)>>))>>),
             JObj(<<Key(P.name, JNum(12)), Key(P.position, JNum(56))>>),
             JObj(<<Key(P.name, JStr(S_Adam)), Key(P.position, JArr(<<>>))>>),
             JObj(<<Key(P.name, JStr(S_Adam)),
                    Key(P.position, JArr(<<JStr(S_Eve), JNum(34)>>))>>) }
      [] t = "reordered" ->
           { JObj(<<Key(P.position, JArr(<<JNum(12)>>)), Key(P.name, JStr(S_Adam))>>) }
      [] t = "person" ->
           { JObj(<<Key(P.person, JObj(<<Key(P.Skills, JArr(<<JStr(S_Eve)>>)),
                                         Key(P.Addresses, JArr(<<Addr1>>))>>))>>),
             JObj(<<Key(P.person, JObj(<<Key(P.Addresses, JArr(<<Addr2, Addr1>>))>>))>>),
             JObj(<<Key(P.person, JObj(<<Key(P.Skills, JArr(<<JStr(S_Adam), JStr(S_Eve)>>)),
                                         Key(P.Addresses,
                                             JArr(<<JObj(<<Key(P.ok, JBool(TRUE))>>), Addr2>>))>>))>>),
             JObj(<<Key(P.person, JObj(<<Key(P.Skills, JArr(<<JNum(12), JStr(S_Adam)>>)),
                                         Key(P.Addresses, JArr(<<JNum(56), Addr2>>))>>))>>),
             JObj(<<>>) }
      [] t = "record" ->
           { JObj(<<Key(P.flag, JNum(12)), Key(P.nothing, JNum(12)), Key(P.num, JStr(S_Eve)),
                    Key(P.text, JBool(TRUE)), Key(P.inner, JArr(<<JNum(12)>>))>>),
             JObj(<<Key(P.num, JNum(78))>>),
             JObj(<<Key(P.flag, JBool(TRUE)), Key(P.nothing, JNull), Key(P.num, JNum(12)),
                    Key(P.text, JStr(S_Long)), Key(P.inner, JObj(<<Key(P.k, JNum(34))>>))>>),
             JObj(<<Key(P.flag, JBool(TRUE)), Key(P.nothing, JNull), Key(P.num, JNum(12)),
                    Key(P.text, JStr(S_Adam)), Key(P.inner, JObj(<<Key(P.a, JNum(34))>>))>>) }
      [] t = "empty" ->
           { JObj(<<Key(P.num, JNum(78)), Key(P.inner, JObj(<<Key(P.k, JNum(34))>>))>>),
             JObj(<<Key(P.num, JNum(78))>>) }
      [] t = "unbound" ->
           { JObj(<<Key(P.num, JNum(78))>>) }

Docs(t) == {FullDoc(t)} \cup OtherDocs(t)

\* A text no JSON parser accepts: {"name":
Malformed == <<123>> \o Quoted(P.name) \o <<58>>

\* The texts handed to jx_json_to_struct: the documents, minified, a text
\* the parser rejects, and whatever jx_struct_to_json left in the buffer.
Texts(t) == { print_value(d, FALSE, 1) : d \in Docs(t) } \cup {Malformed}

Modes == {JX_MODE_RELAXED, JX_MODE_STRICT}

BytePools == {"NULL", "pool"}

\* The state before any call, for the builds of B and the trees of T.
InitOver(B, T) ==
    /\ backend \in B
    /\ JSON_Parser = NoParser
    /\ cjson_hooks = cJSON_InitHooks("NULL", "NULL")
    /\ allocator = NoAllocator
    /\ host = [session |-> 0, user |-> {}]
    /\ tree \in T
    /\ elems = TreeElems(tree)
    /\ mem \in { Fill(Blank(tree), a) : a \in Assignments(tree) }
    /\ buffer = <<>>
    /\ last = NoCall
    /\ calls = 0

-----------------------------------------------------------------------------
(* The session specification: every build, the life cycle calls with valid  *)
(* and invalid arguments, and encode / decode of the example tree under     *)
(* every allocator quota.                                                   *)

Init == InitOver(Backends, {"example"})

InitThreadx == \E bp \in BytePools, granted \in BOOLEAN : jx_init_threadx(bp, granted)

InitHeap == \E granted \in BOOLEAN : jx_init_heap(granted)

InitStatic == \E buf \in {NULL, BufA}, size \in InitSizes : jx_init_static(buf, size)

InitCustom == \E hooks \in HookArgs, granted \in BOOLEAN : jx_init_custom(hooks, granted)

Deinit == jx_parser_deinit

\* The garbage a call of the session specification reads past an array.
NoElement == Element(<<>>, JX_INVALID, 0, NULL, NULL)

\* example.c's input: {"name":"Eve","position":[56,78]}
ExampleInput == print_value(FullDoc("example"), FALSE, 1)

Encode ==
    \E size \in BufferSizes, quota \in Quotas :
        jx_struct_to_json(size, JX_MINIFIED, quota, NoElement)

Decode ==
    \E text \in {ExampleInput, Malformed, buffer} \ {<<>>}, quota \in Quotas :
        jx_json_to_struct(text, JX_MODE_STRICT, quota, NoElement)

Next ==
    \/ InitThreadx
    \/ InitHeap
    \/ InitStatic
    \/ InitCustom
    \/ Deinit
    \/ Encode
    \/ Decode

Spec == Init /\ [][Next]_vars

-----------------------------------------------------------------------------
(* The walk specification: the heap build after the caller's jx_init() has  *)
(* succeeded, with an allocator that does not run out, and encode / decode  *)
(* of every declared tree with every document.                              *)

InitWalk ==
    /\ backend = "heap"
    /\ JSON_Parser = HeapSession
    /\ cjson_hooks = cJSON_InitHooks("jx_alloc_memory", "jx_free_memory")
    /\ allocator = NoAllocator
    /\ host = [session |-> 1, user |-> {}]
    /\ tree \in Trees
    /\ elems = TreeElems(tree)
    /\ mem \in { Fill(Blank(tree), a) : a \in Assignments(tree) }
    /\ buffer = <<>>
    /\ last = NoCall
    /\ calls = 0

\* The size of the caller's text buffer in the walk specification.
WalkBufferSize == 256

WalkEncode ==
    \E format \in Formats, g \in GarbageElems :
        jx_struct_to_json(WalkBufferSize, format, Plenty, g)

WalkDecode ==
    \E text \in Texts(tree) \cup ({buffer} \ {<<>>}), mode \in Modes, g \in GarbageElems :
        jx_json_to_struct(text, mode, Plenty, g)

NextWalk ==
    \/ WalkEncode
    \/ WalkDecode

SpecWalk == InitWalk /\ [][NextWalk]_vars

-----------------------------------------------------------------------------
(* The arena specification: the static build after jx_init(buffer, size)    *)
(* has succeeded, with the caller allocating from the arena between encode  *)
(* and decode calls of the example tree.                                    *)

\* The buffer sizes of the arena specification: a pool of 100 bytes and
\* example.c's.
ArenaSizes == {136, 1024}

InitArena ==
    /\ backend = "static"
    /\ \E size \in ArenaSizes :
         LET rest == BufA + ALIGN_4(SizeofParser)
             left == size - ALIGN_4(SizeofParser)
         IN /\ allocator = jx_static_allocator_init(NoAllocator, rest, left)
            /\ JSON_Parser =
                 [ZeroParser(BufA) EXCEPT
                    !.allocator = AllocatorInitResult(rest, left),
                    !.hooks = Hooks("jx_static_malloc", "jx_static_free", "jx_static_reset"),
                    !.state = JX_INITIALIZED]
    /\ cjson_hooks = cJSON_InitHooks("jx_static_malloc", "jx_static_free")
    /\ host = [session |-> 0, user |-> {}]
    /\ tree = "example"
    /\ elems = TreeElems(tree)
    /\ mem \in { Fill(Blank(tree), a) : a \in Assignments(tree) }
    /\ buffer = <<>>
    /\ last = NoCall
    /\ calls = 0

\* The sizes the caller asks the arena for: nothing, small blocks, a cJSON
\* item, and words at the top of size_t.
RequestSizes == {0, 6, 40, SIZE_MAX - 39, SIZE_MAX - 1, SIZE_MAX}

ArenaAlloc == \E size \in RequestSizes : jx_alloc_memory(size)

ArenaMalloc == \E size \in RequestSizes : StaticMalloc(size)

ArenaFree == \E op \in {"jx_static_free", "jx_free_memory"} : jx_static_free(op)

ArenaEncode ==
    \E size \in BufferSizes : jx_struct_to_json(size, JX_MINIFIED, 0, NoElement)

ArenaDecode ==
    \E text \in {ExampleInput, Malformed} :
        jx_json_to_struct(text, JX_MODE_STRICT, 0, NoElement)

NextArena ==
    \/ ArenaAlloc
    \/ ArenaMalloc
    \/ ArenaFree
    \/ StaticReset
    \/ ArenaEncode
    \/ ArenaDecode

SpecArena == InitArena /\ [][NextArena]_vars

-----------------------------------------------------------------------------
(* Vocabulary of the properties.                                            *)

Indices == 1..Len(elems)

\* The element storage is as the caller declared it, status aside.
Declared ==
    \A i \in Indices :
        [elems[i] EXCEPT !.status = JX_ELEMENT_NOT_UPDATED] = TreeElems(tree)[i]

\* The bytes of the caller's struct that some element is bound to.
BoundBytes(t) == UNION { Field(t, i) : i \in 1..Len(TreeElems(t)) }

\* The tree declares only types the encoder emits a node for.
Encodable(t) ==
    \A i \in 1..Len(TreeElems(t)) :
        TreeElems(t)[i].type \in {JX_BOOLEAN, JX_NUMBER, JX_STRING, JX_ARRAY, JX_OBJECT}

IsEncode(l) == l.op = "jx_struct_to_json"

IsDecode(l) == l.op = "jx_json_to_struct"

-----------------------------------------------------------------------------
(* C1: round trip.  For a tree as declared over Boolean, Number, String,    *)
(* Array and Object elements, jx_struct_to_json returns JX_SUCCESS, and     *)
(* jx_json_to_struct of the text it produced into the same tree returns     *)
(* JX_SUCCESS and leaves every bound byte of the struct as it was.          *)

C1_EncodeStep ==
    (Declared /\ Encodable(tree) /\ IsEncode(last')) => last'.ret = JX_SUCCESS

C1_DecodeStep ==
    (Declared /\ Encodable(tree) /\ IsEncode(last) /\ last.ret = JX_SUCCESS
       /\ IsDecode(last') /\ last'.text = buffer)
    => (last'.ret = JX_SUCCESS /\ \A a \in BoundBytes(tree) : mem'[a] = mem[a])

C1_RoundTrip == [][C1_EncodeStep /\ C1_DecodeStep]_vars

-----------------------------------------------------------------------------
(* C2: a Strict decode of the document that holds every declared key with   *)
(* the declared type returns JX_SUCCESS, leaves every bound leaf holding the *)
(* document's value, and leaves every element of the tree Updated.          *)

FullText(t) == print_value(FullDoc(t), FALSE, 1)

\* The struct holds the given <<address, bytes>> values.
Holds(m, values) ==
    \A k \in 1..Len(values) : ReadBytes(m, values[k][1], Len(values[k][2])) = values[k][2]

C2_StrictFull ==
    (IsDecode(last) /\ last.mode = JX_MODE_STRICT /\ last.text = FullText(tree))
    => /\ last.ret = JX_SUCCESS
       /\ Holds(mem, FullValues(tree))
       /\ \A i \in Indices : elems[i].status = JX_ELEMENT_UPDATED

-----------------------------------------------------------------------------
(* C3: when a declared element with a non-empty property has no matching    *)
(* key in its container, at any nesting level, a Strict decode returns      *)
(* JX_ERROR; a Relaxed decode returns JX_SUCCESS and has gone on to the      *)
(* elements that follow it in its sequence.                                 *)

\* The elements declared after element i in the same element array.
LaterSiblings(t, i) ==
    { k \in 1..Len(TreeElems(t)) :
        k > i /\ \E r \in Arrays(t) : r[1] <= i /\ i <= r[2] /\ k <= r[2] }

C3_AbsentKey ==
    (IsDecode(last) /\ last.parsed /\ last.missing # {})
    => /\ last.mode = JX_MODE_STRICT => last.ret = JX_ERROR
       /\ last.mode = JX_MODE_RELAXED =>
            /\ last.ret = JX_SUCCESS
            /\ \A i \in last.missing : LaterSiblings(tree, i) \subseteq last.rd

\* A Relaxed decode that missed a key below the top level and a key with a
\* later sibling, and decoded that sibling.
C3_Witness ==
    /\ IsDecode(last) /\ last.mode = JX_MODE_RELAXED /\ last.ret = JX_SUCCESS
    /\ \E i \in last.missing : i > TopSize(tree)
    /\ \E i \in last.missing : \E k \in LaterSiblings(tree, i) : k \in last.we

-----------------------------------------------------------------------------
(* C4: after a Relaxed decode, every element whose key the input lacked has *)
(* status NotUpdated, whatever its status was before the call.              *)

C4_StatusReset ==
    (IsDecode(last) /\ last.mode = JX_MODE_RELAXED /\ last.parsed)
    => \A i \in last.missing \ last.matched : elems[i].status = JX_ELEMENT_NOT_UPDATED

-----------------------------------------------------------------------------
(* C5: for every declared type, an element matched with a node of another   *)
(* type does not make the decode fail and is NotUpdated after the call.     *)

C5_Mismatch ==
    (IsDecode(last) /\ last.parsed)
    => /\ (last.missing = {} /\ ~last.oob) => last.ret = JX_SUCCESS
       /\ \A i \in last.mism : elems[i].status = JX_ELEMENT_NOT_UPDATED

-----------------------------------------------------------------------------
(* C6: decoding an array with more items than the Array element's declared  *)
(* capacity accesses no child element slot at or beyond the capacity.       *)

Capacity(t, i) == TreeElems(t)[i].value_len

C6_NoExcessAccess ==
    (IsDecode(last) /\ \E a \in last.arr : a[2] > Capacity(tree, a[1]))
    => ~last.oob

-----------------------------------------------------------------------------
(* C7: decoding an array of n items into an Array element of declared       *)
(* capacity c >= n sets value_len to n, decodes children 0..n-1, leaves     *)
(* children n..c-1 and the memory bound below them untouched, and marks the *)
(* Array element Updated.                                                   *)

\* The bytes bound to element idx and to the elements declared below it.
RECURSIVE FieldsUnder(_, _)
FieldsUnder(t, idx) ==
    LET e == TreeElems(t)[idx]
    IN Field(t, idx) \cup
       (IF e.element = NULL THEN {}
        ELSE UNION { FieldsUnder(t, e.element + k) : k \in 0..(e.value_len - 1) })

C7_ShortArray ==
    (IsDecode(last) /\ last.ret = JX_SUCCESS)
    => \A a \in last.arr :
         LET i == a[1]
             n == a[2]
             c == Capacity(tree, i)
             el == TreeElems(tree)[i].element
         IN n <= c =>
              /\ elems[i].value_len = n
              /\ elems[i].status = JX_ELEMENT_UPDATED
              /\ \A k \in 0..(n - 1) : el + k \in last.we
              /\ \A k \in n..(c - 1) :
                   /\ el + k \notin last.we
                   /\ last.wm \cap FieldsUnder(tree, el + k) = {}

-----------------------------------------------------------------------------
(* C8: jx_struct_to_json and jx_json_to_struct called while the session is  *)
(* not Initialized return JX_ERROR without allocating, without touching the *)
(* arena, and without reading or writing the element tree or caller memory. *)

C8_Step ==
    ((IsEncode(last') \/ IsDecode(last')) /\ SessionState # JX_INITIALIZED)
    => /\ last'.ret = JX_ERROR
       /\ last'.allocs = 0
       /\ last'.rd = {} /\ last'.we = {} /\ last'.wm = {}
       /\ allocator' = allocator

C8_ResetRejects == [][C8_Step]_vars

-----------------------------------------------------------------------------
(* C9: in every build, jx_init called while a session exists returns        *)
(* JX_ERROR.                                                                *)

C9_ReinitRejected ==
    (last.op = "jx_init" /\ last.before = JX_INITIALIZED) => last.ret = JX_ERROR

-----------------------------------------------------------------------------
(* C10: jx_init called with invalid arguments returns JX_ERROR and leaves   *)
(* the session pointer, the session block, cJSON's hooks and the allocator  *)
(* binding as they were.                                                    *)

C10_Step ==
    (last'.op = "jx_init" /\ ~last'.valid)
    => /\ last'.ret = JX_ERROR
       /\ JSON_Parser' = JSON_Parser
       /\ cjson_hooks' = cjson_hooks
       /\ allocator' = allocator

C10_InvalidArgs == [][C10_Step]_vars

-----------------------------------------------------------------------------
(* C11: jx_parser_deinit with no session changes nothing; after any         *)
(* jx_parser_deinit there is no session; and a jx_init with valid arguments *)
(* that follows a jx_parser_deinit returns JX_SUCCESS unless another user   *)
(* of the host allocator holds the memory.  After any sequence of calls.    *)

C11_Step ==
    /\ (last'.op = "jx_parser_deinit" /\ SessionState = "none")
         => UNCHANGED <<JSON_Parser, cjson_hooks, allocator, host, elems, mem, buffer>>
    /\ last'.op = "jx_parser_deinit" => JSON_Parser'.ptr = NULL
    /\ (last.op = "jx_parser_deinit" /\ last'.op = "jx_init"
          /\ last'.valid /\ last'.granted)
         => last'.ret = JX_SUCCESS

C11_DeinitRestores == [][C11_Step]_vars

-----------------------------------------------------------------------------
(* C12: in the ThreadX, FreeRTOS / heap and custom-hook builds, after       *)
(* jx_parser_deinit has torn down a session no block that jx_init           *)
(* allocated is outstanding.                                                *)

C12_BlockReleased ==
    (last.op = "jx_parser_deinit" /\ last.before = JX_INITIALIZED
       /\ backend \in {"threadx", "heap", "custom"})
    => host.session = 0

-----------------------------------------------------------------------------
(* C13: in any sequence of arena allocate calls with any size_t request     *)
(* sizes, a request larger than what is left of the pool returns NULL, and  *)
(* every block returned lies inside the pool.                               *)

IsAllocate(l) == l.op \in {"jx_static_malloc", "jx_alloc_memory"}

\* A block <<offset, rounded size>> lies within a pool of the given size.
InsidePool(b, pool_size) == b[1] >= 0 /\ b[2] >= 0 /\ b[1] + b[2] <= pool_size

C13_Step ==
    IsAllocate(last') =>
        /\ UGreater(last'.size, allocator.pool_size - allocator.pool_offset)
             => last'.blocks = <<>>
        /\ \A k \in 1..Len(last'.blocks) :
             InsidePool(last'.blocks[k], allocator.pool_size)

C13_ArenaBounds == [][C13_Step]_vars

-----------------------------------------------------------------------------
(* C14: in the static build every jx_struct_to_json and jx_json_to_struct   *)
(* starts from an empty pool, whatever calls came before: its first         *)
(* allocation is served at offset 0, and the pool keeps the size it was     *)
(* given at jx_init.                                                        *)

C14_Step ==
    /\ allocator'.pool_size = allocator.pool_size
    /\ (IsEncode(last') \/ IsDecode(last'))
         => /\ last'.blocks # <<>>
            /\ last'.blocks[1][1] = 0
            /\ allocator'.pool_offset <= allocator.pool_size

C14_EntryReset == [][C14_Step]_vars

\* An encode or decode that found blocks of the caller in the pool and
\* allocated.
C14_Witness ==
    /\ IsEncode(last) \/ IsDecode(last)
    /\ last.blocks # <<>>
    /\ \E b \in host.user : b[2] > 0

-----------------------------------------------------------------------------
(* C15: in the static build a block the caller obtained from                *)
(* jx_alloc_memory before a jx_struct_to_json or jx_json_to_struct call     *)
(* overlaps no block the allocator hands out during that call.              *)

\* Two blocks <<offset, size>> share a byte.
Overlap(b, c) == b[2] > 0 /\ c[2] > 0 /\ b[1] < c[1] + c[2] /\ c[1] < b[1] + b[2]

C15_UserBufferKept ==
    (IsEncode(last) \/ IsDecode(last))
    => \A u \in host.user : \A k \in 1..Len(last.blocks) : ~Overlap(u, last.blocks[k])

-----------------------------------------------------------------------------
(* C16: when an allocation fails while jx_struct_to_json builds the value   *)
(* tree, for a leaf as for a container, the call returns JX_ERROR.          *)

C16_AllocFailure ==
    (IsEncode(last) /\ last.before = JX_INITIALIZED /\ last.failed)
    => last.ret = JX_ERROR


-----------------------------------------------------------------------------
(* C17: under a backend that releases (ThreadX, heap, custom), when         *)
(* jx_struct_to_json or jx_json_to_struct returns, every block allocated    *)
(* for the value tree during the call has been released, and none has been  *)
(* released or read again after its release.                                *)

C17_NodesReleased ==
    ((IsEncode(last) \/ IsDecode(last)) /\ last.before = JX_INITIALIZED
       /\ backend # "static")
    => (last.live = 0 /\ ~last.uaf)

-----------------------------------------------------------------------------
(* C18: during encode an element of type Null (or of an unrecognized type)  *)
(* contributes no node: the top-level object that a successful encode has   *)
(* printed has one member per Boolean, Number, String, Object or Array       *)
(* element, under that element's property, and none under the property of   *)
(* a Null element.                                                          *)

\* The element types the switch of _jx_struct_to_object builds a node for.
BuiltTypes == {JX_BOOLEAN, JX_NUMBER, JX_STRING, JX_OBJECT, JX_ARRAY}

\* The top-level elements of the caller's tree.
TopIndices == TopBase(tree)..(TopBase(tree) + TopSize(tree) - 1)

\* The document in the caller's buffer, read back.
Printed ==
    cJSON_Parse([Heap(NoAllocator, Plenty) EXCEPT !.malloc_fn = "malloc", !.free_fn = "free"],
                buffer).item

C18_NullSkipped ==
    (IsEncode(last) /\ last.ret = JX_SUCCESS /\ ~last.failed)
    => /\ Len(Printed.child) = Cardinality({i \in TopIndices : elems[i].type \in BuiltTypes})
       /\ \A i \in TopIndices :
            (elems[i].type \in BuiltTypes)
              <=> (cJSON_GetObjectItemCaseSensitive(Printed, elems[i].property) # NullItem)

-----------------------------------------------------------------------------
(* C19: encode attaches the node it builds for an element as the last child *)
(* of the parent, in element declaration order; under an Array parent the   *)
(* node gets no key, whatever the element's property; under an Object       *)
(* parent its key is the element's property; and the top-level container is *)
(* an Object.                                                               *)

\* The attachments made before the k-th one into the same parent.
EarlierSiblings(att, k) == {j \in 1..(k - 1) : att[j].base = att[k].base}

C19_Attachment ==
    IsEncode(last)
    => /\ \A k \in 1..Len(last.att) :
            LET x == last.att[k]
            IN /\ x.parent \in {cJSON_Array, cJSON_Object}
               /\ x.parent = cJSON_Array => x.key = NoKey
               /\ x.parent = cJSON_Object => x.key = x.prop
               /\ x.base = TopBase(tree) => x.parent = cJSON_Object
               /\ x.pos = 1 + Cardinality(EarlierSiblings(last.att, k))
               /\ \A j \in EarlierSiblings(last.att, k) : last.att[j].i < x.i
       /\ last.ret = JX_SUCCESS => Printed.type = cJSON_Object

\* An encode that has attached two items to an Array and two keyed members
\* to an Object, and has printed the document.
C19_Witness ==
    /\ IsEncode(last) /\ last.ret = JX_SUCCESS
    /\ \E k \in 1..Len(last.att) :
         last.att[k].parent = cJSON_Array /\ last.att[k].pos = 2
    /\ \E k \in 1..Len(last.att) :
         /\ last.att[k].parent = cJSON_Object /\ last.att[k].pos = 2
         /\ last.att[k].key # <<>>

-----------------------------------------------------------------------------
(* C20: when the parser rejects the text, jx_json_to_struct returns         *)
(* JX_ERROR and touches no element: every element's status and value_len    *)
(* and every byte of the caller's memory are as they were before the call.  *)

C20_Step ==
    (IsDecode(last') /\ ~last'.parsed)
    => (last'.ret = JX_ERROR /\ elems' = elems /\ mem' = mem)

C20_ParseRejected == [][C20_Step]_vars

\* A decode of a text the parser rejects, called on a tree that an earlier
\* decode has updated.
C20_Witness ==
    /\ IsDecode(last) /\ ~last.parsed /\ last.text = Malformed
    /\ last.ret = JX_ERROR /\ ~last.failed
    /\ \E i \in DOMAIN elems : elems[i].status = JX_ELEMENT_UPDATED

-----------------------------------------------------------------------------
(* C21: when a Strict decode fails at an element whose key is absent, the   *)
(* elements before it in its sequence that this call decoded keep status    *)
(* Updated, and the elements after it in that sequence are untouched: their *)
(* status, value_len and bound memory are as before the call.               *)

\* The elements declared before element i in the same element array.
EarlierInSequence(t, i) ==
    { k \in 1..Len(TreeElems(t)) :
        k < i /\ \E r \in Arrays(t) : r[1] <= k /\ i <= r[2] }

ScalarTypes == {JX_NULL, JX_BOOLEAN, JX_NUMBER, JX_STRING}

StrictFailure(l) ==
    IsDecode(l) /\ l.mode = JX_MODE_STRICT /\ l.parsed /\ l.ret = JX_ERROR /\ l.missing # {}

C21_Step ==
    StrictFailure(last')
    => \A m \in last'.missing :
         /\ \A i \in LaterSiblings(tree, m) :
              /\ elems'[i] = elems[i]
              /\ \A a \in Field(tree, i) : mem'[a] = mem[a]
         /\ \A i \in EarlierInSequence(tree, m) :
              (i \in last'.matched \ last'.mism /\ elems[i].type \in ScalarTypes)
              => elems'[i].status = JX_ELEMENT_UPDATED

C21_NoRollback == [][C21_Step]_vars

-----------------------------------------------------------------------------
(* C22: an encode or decode that meets a malformed element, a Boolean,      *)
(* Number or String leaf whose value_p is null or a container whose element *)
(* sequence is null with a non-zero count, returns JX_ERROR and neither     *)
(* reads nor writes through the null pointer.                               *)

\* The malformed elements of the declared tree.
Malformations(t) ==
    { i \in 1..Len(TreeElems(t)) :
        LET e == TreeElems(t)[i]
        IN \/ e.type \in {JX_BOOLEAN, JX_NUMBER, JX_STRING} /\ e.value_p = NULL
           \/ e.type \in {JX_OBJECT, JX_ARRAY} /\ e.element = NULL /\ e.value_len # 0 }

\* The call has come to a malformed element: the encode has read it, the
\* decode has matched it with a node of its type.
MeetsMalformed(l) ==
    \/ IsEncode(l) /\ Malformations(tree) \cap l.rd # {}
    \/ IsDecode(l) /\ Malformations(tree) \cap (l.matched \ l.mism) # {}

C22_MalformedTree ==
    (Declared /\ MeetsMalformed(last)) => (last.ret = JX_ERROR /\ ~last.nullp)

-----------------------------------------------------------------------------
(* C23: an element declared with JX_PROPERTY_OBJECT_EMPTY stands for an     *)
(* object with no members: encoding it succeeds and prints an empty object  *)
(* under its property, decoding it against an object node succeeds, and     *)
(* neither call dereferences the null children pointer.                     *)

\* The elements declared with JX_OBJECT_EMPTY / JX_PROPERTY_OBJECT_EMPTY.
EmptyObjects ==
    { i \in Indices : elems[i].type = JX_OBJECT /\ elems[i].element = NULL
                       /\ elems[i].value_len = 1 }

C23_EmptyObject ==
    /\ (IsEncode(last) /\ Declared /\ EmptyObjects \cap last.rd # {})
         => /\ last.ret = JX_SUCCESS
            /\ ~last.nullp
            /\ \A i \in EmptyObjects \cap TopIndices :
                 cJSON_GetObjectItemCaseSensitive(Printed, elems[i].property)
                   = Key(elems[i].property, JObj(<<>>))
    /\ (IsDecode(last) /\ Declared /\ EmptyObjects \cap (last.matched \ last.mism) # {})
         => (last.ret = JX_SUCCESS /\ ~last.nullp)

-----------------------------------------------------------------------------
(* C24: decoding a String element matched with a string node copies the     *)
(* first min(length, JX_PROPERTY_MAX_SIZE) characters of the source into    *)
(* the bound buffer and marks the element Updated; the bytes where source   *)
(* characters at index JX_PROPERTY_MAX_SIZE and beyond would go are left as *)
(* they were.                                                               *)

\* The document of the decode, read again.
DocOf(l) ==
    cJSON_Parse([Heap(NoAllocator, Plenty) EXCEPT !.malloc_fn = "malloc", !.free_fn = "free"],
                l.text).item

\* The top-level String elements that the decode matched with a string.
StringsDecoded(l) ==
    { i \in TopIndices \cap (l.matched \ l.mism) :
        elems[i].type = JX_STRING /\ elems[i].value_p # NULL }

C24_Step ==
    (IsDecode(last') /\ last'.parsed)
    => \A i \in StringsDecoded(last') :
         LET s == cJSON_GetObjectItemCaseSensitive(DocOf(last'), elems[i].property).valuestring
             n == IF Len(s) < JX_PROPERTY_MAX_SIZE THEN Len(s) ELSE JX_PROPERTY_MAX_SIZE
             vp == elems[i].value_p
         IN /\ ReadBytes(mem', vp, n) = SubSeq(s, 1, n)
            /\ elems'[i].status = JX_ELEMENT_UPDATED
            /\ \A k \in JX_PROPERTY_MAX_SIZE..(Len(s) - 1) : mem'[vp + k] = mem[vp + k]

C24_StringCopy == [][C24_Step]_vars

\* A decode of a string longer than JX_PROPERTY_MAX_SIZE into a buffer whose
\* bytes beyond JX_PROPERTY_MAX_SIZE held something else than the source.
C24_Witness ==
    /\ IsDecode(last) /\ last.ret = JX_SUCCESS
    /\ \E i \in StringsDecoded(last) :
         LET s == cJSON_GetObjectItemCaseSensitive(DocOf(last), elems[i].property).valuestring
         IN /\ Len(s) > JX_PROPERTY_MAX_SIZE
            /\ mem[elems[i].value_p + JX_PROPERTY_MAX_SIZE] # s[JX_PROPERTY_MAX_SIZE + 1]
            /\ elems[i].status = JX_ELEMENT_UPDATED

-----------------------------------------------------------------------------
(* C25: while item j of a JSON array is decoded, only the declared child    *)
(* element j and its descendants are accessed.  So when the array holds n   *)
(* items, n within the declared capacity, the declared children n, n+1, ... *)
(* are neither read nor written, and when every array of the document is    *)
(* within its capacity no slot past the end of a sequence is accessed.      *)

\* The declared children of Array element i at positions n and beyond.
ChildrenFrom(t, i, n) ==
    LET e == TreeElems(t)[i]
    IN IF e.element = NULL THEN {} ELSE (e.element + n)..HiOf(t, e.element)

WithinCapacity(l) == \A a \in l.arr : a[2] <= Capacity(tree, a[1])

C25_ItemOnly ==
    (IsDecode(last) /\ WithinCapacity(last))
    => /\ ~last.oob
       /\ \A a \in last.arr :
            ChildrenFrom(tree, a[1], a[2]) \cap (last.rd \cup last.we) = {}

-----------------------------------------------------------------------------
(* C26: after a decode, an element has status Updated only if this call     *)
(* matched it with a node of its declared type and decoded it; an array     *)
(* child whose item has another type is NotUpdated.                         *)

C26_UpdatedMeansWritten ==
    (IsDecode(last) /\ last.parsed)
    => \A i \in Indices :
         elems[i].status = JX_ELEMENT_UPDATED => i \in last.matched \ last.mism

-----------------------------------------------------------------------------
(* C27: the element tree stays a reusable template.  After a successful     *)
(* jx_json_to_struct (the input's arrays may be empty or shorter than       *)
(* declared), jx_struct_to_json on the same tree returns JX_SUCCESS, and a  *)
(* later decode of an array of up to the declared capacity decodes all its  *)
(* items.                                                                   *)

C27_EncodeStep ==
    (IsDecode(last) /\ last.ret = JX_SUCCESS /\ WithinCapacity(last)
       /\ ~last.oob /\ ~last.nullp /\ Encodable(tree) /\ Malformations(tree) = {}
       /\ IsEncode(last'))
    => last'.ret = JX_SUCCESS

C27_DecodeStep ==
    (IsDecode(last) /\ last.ret = JX_SUCCESS /\ IsDecode(last') /\ last'.ret = JX_SUCCESS)
    => \A a \in last'.arr :
         a[2] <= Capacity(tree, a[1])
         => \A k \in 0..(a[2] - 1) : TreeElems(tree)[a[1]].element + k \in last'.we

C27_Template == [][C27_EncodeStep /\ C27_DecodeStep]_vars


-----------------------------------------------------------------------------
(* C28: the arena's frame conditions.  jx_static_free, for any pointer,     *)
(* and a jx_static_malloc of size 0 or of more than what is left of the     *)
(* pool leave pool_start, pool_size and pool_offset as they were;           *)
(* jx_static_reset changes only pool_offset, to 0; a jx_static_malloc that  *)
(* returns a block changes only pool_offset.                                *)

\* The request is one the pool cannot serve: nothing, or more than is left.
Unservable(l, a) ==
    l.size = 0 \/ UGreater(l.size, a.pool_size - a.pool_offset)

C28_Step ==
    /\ last'.op \in {"jx_static_free", "jx_free_memory"} => allocator' = allocator
    /\ (last'.op = "jx_static_malloc" /\ Unservable(last', allocator))
         => allocator' = allocator
    /\ last'.op = "jx_static_reset"
         => allocator' = [allocator EXCEPT !.pool_offset = 0]
    /\ (last'.op = "jx_static_malloc" /\ last'.blocks # <<>>)
         => allocator' = [allocator EXCEPT !.pool_offset = allocator'.pool_offset]

C28_ArenaFrame == [][C28_Step]_vars


-----------------------------------------------------------------------------
(* C29: in any sequence of arena allocate, release and reset calls after    *)
(* init, pool_offset is a multiple of 4 within [0, pool_size] and does not  *)
(* decrease except by a reset: an allocation that returns a block of        *)
(* rounded size s advances it by exactly s, so the block shares no byte     *)
(* with the blocks handed out before it since the last reset.               *)

ArenaCalls ==
    {"jx_static_malloc", "jx_alloc_memory", "jx_static_free", "jx_free_memory",
     "jx_static_reset"}

\* The size of a block as the size_t word it is.
USize(b) == IF b[2] < 0 THEN b[2] + 2^32 ELSE b[2]

\* Two blocks <<offset, size_t size>> share a byte.
Shares(b, c) ==
    USize(b) > 0 /\ USize(c) > 0 /\ b[1] < c[1] + USize(c) /\ c[1] < b[1] + USize(b)

C29_Step ==
    last'.op \in ArenaCalls =>
        /\ allocator'.pool_offset % 4 = 0
        /\ allocator'.pool_offset \in 0..allocator'.pool_size
        /\ last'.op # "jx_static_reset"
             => allocator'.pool_offset >= allocator.pool_offset
        /\ \A k \in 1..Len(last'.blocks) :
             /\ allocator'.pool_offset = allocator.pool_offset + USize(last'.blocks[k])
             /\ \A u \in host.user :
                  u[1] + USize(u) <= allocator.pool_offset => ~Shares(u, last'.blocks[k])

C29_ArenaOffset == [][C29_Step]_vars


-----------------------------------------------------------------------------
(* C30: decoding a String element changes only bytes of the caller buffer   *)
(* bound to that element.  When the only member a document has for the     *)
(* tree is a string that fits the bound buffer with its terminator, no      *)
(* byte outside that buffer (the next field of the struct, the memory       *)
(* after the struct) is changed by jx_json_to_struct.                       *)

\* The decoded strings whose source fits the element's buffer.
FittingStrings(l) ==
    { i \in StringsDecoded(l) :
        Len(cJSON_GetObjectItemCaseSensitive(DocOf(l), elems[i].property).valuestring)
          < FieldSize(tree, i) }

C30_Step ==
    (IsDecode(last') /\ last'.parsed)
    => \A i \in FittingStrings(last') :
         last'.matched = {i}
         => \A x \in Addr \ Field(tree, i) : mem'[x] = mem[x]

C30_StringFrame == [][C30_Step]_vars

=============================================================================
